---- MODULE Spec2Model ----
(***************************************************************************)
(* Model of the Scrollbox chip of booyah-pixi (src/src/scroll.ts) and of   *)
(* the point helpers it uses (src/src/booyahPixi.ts).                      *)
(*                                                                         *)
(* JavaScript numbers are modelled as extended rationals [n, d]:           *)
(*   d > 0          the finite value n/d (in lowest terms)                 *)
(*   d = 0, n = 1   +Infinity      d = 0, n = -1   -Infinity               *)
(*   d = 0, n = 0   NaN                                                    *)
(* so that box / content is a real division whose result can be a proper   *)
(* fraction, Infinity or NaN, exactly as in the code.                      *)
(* -0 is identified with 0: the only divisor of the code is the ratio      *)
(* boxSize / contentSize, which is never negative.                         *)
(***************************************************************************)
EXTENDS Integers, Sequences, FiniteSets, TLC

(* ------------------------------ bounds --------------------------------- *)

\* largest width / height of the user content placed inside the scrollbox
MaxContentW == 3
MaxContentH == 2
\* scrollTo / scrollBy arguments lie on one axis: x in -MaxArg..MaxArg or
\* y in -MaxArgY..0
MaxArg == 2
MaxArgY == 1
\* pointer events carry global points in 0..MaxPointerX x 0..MaxPointerY
MaxPointerX == 1
MaxPointerY == 1
\* wheel events carry a deltaY of magnitude 1..MaxWheel
MaxWheel == 1
\* wheel listeners of one instance left registered on the render surface
MaxListeners == 1
\* the render surface is 1..MaxRenderSize wide
MaxRenderSize == 2
\* an animation has NumFrames frames
NumFrames == 2
\* runs of Loader._startLoading (one for each activation)
MaxStarts == 2
\* sprites one AnimatedSpriteChip creates (one for each activation)
MaxSprites == 2
\* upload callbacks of the prepare plugin that are pending at one time
MaxUploads == 1

(* --------------------------- JS numbers -------------------------------- *)

Abs(i) == IF i < 0 THEN -i ELSE i

Sign(i) == IF i < 0 THEN -1 ELSE IF i > 0 THEN 1 ELSE 0

RECURSIVE GCD(_, _)
GCD(a, b) == IF b = 0 THEN a ELSE GCD(b, a % b)

\* the number n/d brought to its canonical representation
Norm(n, d) ==
  IF d = 0 THEN [n |-> Sign(n), d |-> 0]
  ELSE LET s == IF d < 0 THEN -1 ELSE 1
           g == GCD(Abs(n), Abs(d))
       IN  [n |-> (s * n) \div g, d |-> (s * d) \div g]

Num(i) == [n |-> i, d |-> 1]

Zero == Num(0)

NaN == [n |-> 0, d |-> 0]

Infinity == [n |-> 1, d |-> 0]

IsNaN(a) == a.n = 0 /\ a.d = 0

IsFinite(a) == a.d > 0

Neg(a) == [n |-> -a.n, d |-> a.d]

Mul(a, b) == Norm(a.n * b.n, a.d * b.d)

Div(a, b) == Norm(a.n * b.d, a.d * b.n)

Plus(a, b) ==
  IF a.d = 0 /\ b.d = 0
  THEN (IF a.n = b.n THEN a ELSE NaN)
  ELSE Norm(a.n * b.d + b.n * a.d, a.d * b.d)

Minus(a, b) == Plus(a, Neg(b))

\* a <= b as JavaScript evaluates it (false when either side is NaN)
Leq(a, b) ==
  IF IsNaN(a) \/ IsNaN(b) THEN FALSE
  ELSE IF a.d = 0 /\ b.d = 0 THEN a.n <= b.n
  ELSE a.n * b.d <= b.n * a.d

MathMax(a, b) ==
  IF IsNaN(a) \/ IsNaN(b) THEN NaN ELSE IF Leq(a, b) THEN b ELSE a

MathMin(a, b) ==
  IF IsNaN(a) \/ IsNaN(b) THEN NaN ELSE IF Leq(a, b) THEN a ELSE b

\* clamp without its upper limit
clamp_lowerOnly(x, min, max) == MathMax(min, x)

\* geom.clamp of booyah, as called by scrollTo
clamp(x, min, max) == MathMin(max, MathMax(min, x))

(* ------------------------------ points --------------------------------- *)

Point(x, y) == [x |-> x, y |-> y]

add(a, b) == Point(Plus(a.x, b.x), Plus(a.y, b.y))

subtract(a, b) == Point(Minus(a.x, b.x), Minus(a.y, b.y))

\* distance(a, b) <= t, with the square root removed from both sides
\* (distance is never negative, so a negative t is never reached)
distanceLeq(a, b, t) ==
  LET x == Minus(a.x, b.x)
      y == Minus(a.y, b.y)
  IN  /\ Leq(Zero, t)
      /\ Leq(Plus(Mul(x, x), Mul(y, y)), Mul(t, t))

(* ------------------------------ options -------------------------------- *)

\* new ScrollboxOptions(): the default of every option, with the lengths
\* (100, 100 and 5 pixels in the source) scaled down to 2, 1 and 1
DefaultOptions ==
  [ boxWidth |-> 2, boxHeight |-> 1, overflow |-> "auto",
    direction |-> "horizontal", dragScroll |-> TRUE, dragThreshold |-> 1,
    stopPropagation |-> TRUE, wheelScroll |-> TRUE ]

\* fillInOptions(partialOptions, new ScrollboxOptions()): the defaults, and
\* the defaults overridden by two sets of options of the caller, which
\* together give every option each of its values
ScrollboxOptions ==
  { DefaultOptions,
    [DefaultOptions EXCEPT !.overflow = "hidden", !.direction = "vertical",
                           !.stopPropagation = FALSE, !.wheelScroll = FALSE],
    [DefaultOptions EXCEPT !.overflow = "scroll", !.dragScroll = FALSE] }

\* sizes of the user content held by the content container: no children,
\* or children that extend on both axes
ChildSizes == {[w |-> 0, h |-> 0]} \cup [w : 1..MaxContentW, h : 1..MaxContentH]

\* reason arguments; "undefined" is an omitted argument
Reasons == {"undefined", "programmatic"}

\* positions and amounts passed to scrollTo and scrollBy
Arguments ==
  {Point(Num(x), Zero) : x \in -MaxArg..MaxArg}
    \cup {Point(Zero, Num(y)) : y \in -MaxArgY..0}

\* global points of pointer events
GlobalPoints == {Point(Num(x), Num(y)) : x \in 0..MaxPointerX, y \in 0..MaxPointerY}

\* the events subscribed to _onUp
PointerUpEvents == {"pointerup", "pointercancel", "pointerupoutside"}

\* deltaY of wheel events
WheelDeltas == {d \in -MaxWheel..MaxWheel : d # 0}

\* wheel events: the deltaY, container.worldVisible and the result of the hit
\* test; the handler reads hit only when visible and deltaY only when hit
WheelEvents ==
  {e \in [deltaY : WheelDeltas, visible : BOOLEAN, hit : BOOLEAN] :
     /\ ~ e.visible => ~ e.hit
     /\ ~ e.hit => e.deltaY = MaxWheel}

\* the keys PixiAppChip.contextModification puts into the chip context
PixiAppChipContext == {"pixiAppChip", "pixiApplication", "container"}

\* a chip context in which the host also provides "app", the same
\* application as "pixiApplication"
HostContext == PixiAppChipContext \cup {"app"}

\* where the host placed the scrollbox container in the scene
ContainerOrigin == Point(Num(1), Num(0))

(* ------------------------------- state --------------------------------- *)

VARIABLES
  options,          \* this.options
  status,           \* chip lifecycle: "constructed", "active", "terminated"
  size,             \* this.content.width and this.content.height
  content,          \* this.content: position and interactiveChildren
  pointerDown,      \* this.pointerDown: <<>> is null, <<record>> otherwise
  scrollbar,        \* this._ratio and the geometry of background and handle
  scrollbarVisible, \* visible flag of the scrollbar display objects
  lastOp,           \* the operation or handler that ran last, and its argument
  emitted,          \* notifications emitted by the operation that ran last
  observed,         \* what the listeners of those notifications read
  chipContext,      \* keys of this._chipContext
  wheelListeners,   \* wheel listeners of this instance on the render surface
  outcome,          \* what the operation that ran last did to its event
  renderSize,       \* PixiAppChip.renderSize
  container,        \* children of this._chipContext.container
  displayObjectChip,  \* a DisplayObjectChip and its display object
  animatedSpriteChip, \* an AnimatedSpriteChip and its sprite
  loader            \* a Loader and its loading flows

\* the state of the Scrollbox
scrollVars == <<options, status, size, content, pointerDown, scrollbar,
                scrollbarVisible, chipContext, wheelListeners>>

\* the state of the chips of booyahPixi.ts
helperVars == <<renderSize, container, displayObjectChip, animatedSpriteChip, loader>>

vars == <<options, status, size, content, pointerDown, scrollbar,
          scrollbarVisible, lastOp, emitted, observed, chipContext,
          wheelListeners,
          outcome, helperVars>>

\* an operation, the point and the reason it was called with (for scrollTo
\* and scrollBy), position: the point object of the caller as the call left
\* it, and repeated: it is a scrollTo that directly follows a
\* scrollTo of the same position
Call(name, arg, reason) ==
  [name |-> name, arg |-> arg, reason |-> reason, position |-> arg,
   repeated |-> (name = "scrollTo" /\ lastOp.name = "scrollTo" /\ arg = lastOp.arg)]

\* an operation or handler other than scrollTo and scrollBy
Op(name, arg) == Call(name, arg, "none")

\* a handler and the branch it took
Handled(name, branch) ==
  Call(name, [x |-> [n |-> 0, d |-> 1], y |-> [n |-> 0, d |-> 1]], branch)

\* e.stopPropagation() called, e.preventDefault() called, error thrown
Outcome(stopped, prevented, raised) ==
  [stopped |-> stopped, prevented |-> prevented, raised |-> raised]

NoOutcome == Outcome(FALSE, FALSE, "none")

NoArg == Point(Zero, Zero)

Moved(reason) == [name |-> "moved", reason |-> reason]

Refreshed == [name |-> "refreshed", reason |-> "none"]

\* this.content.width and height: the bounds of the children, which include
\* the boxWidth x boxHeight drag background when dragScroll is set
contentBounds(opts, ch) ==
  [w |-> IF opts.dragScroll /\ ch.w < opts.boxWidth THEN opts.boxWidth ELSE ch.w,
   h |-> IF opts.dragScroll /\ ch.h < opts.boxHeight THEN opts.boxHeight ELSE ch.h]

\* this.container.toLocal(e.global)
containerToLocal(g) == subtract(g, ContainerOrigin)

\* this._scrollbarAnchor.toLocal(e.global): the anchor sits at (0, boxHeight)
scrollbarAnchorToLocal(opts, g) ==
  subtract(containerToLocal(g), Point(Zero, Num(opts.boxHeight)))

\* this._ratio before the first _updateScrollbars (undefined, NaN in
\* arithmetic) and the planes options.scrollbarBackground and
\* options.scrollbarForeground as the caller supplies them: at the origin,
\* one unit wide and high
SuppliedScrollbar ==
  [ratio |-> NaN,
   backgroundWidth |-> Num(1), backgroundHeight |-> Num(1),
   handleWidth |-> Num(1), handleHeight |-> Num(1),
   handleX |-> Zero, handleY |-> Zero]

\* new Scrollbox(partialOptions)
ScrollboxConstructed ==
  /\ options \in ScrollboxOptions
  /\ status = "constructed"
  /\ \E ch \in ChildSizes : size = contentBounds(options, ch)
  /\ content = [x |-> Zero, y |-> Zero, interactiveChildren |-> TRUE]
  /\ pointerDown = <<>>
  /\ scrollbar = SuppliedScrollbar
  /\ scrollbarVisible = TRUE
  /\ lastOp = [name |-> "constructor", arg |-> NoArg, reason |-> "none",
               position |-> NoArg,
               repeated |-> FALSE]
  /\ emitted = <<>>
  /\ observed = <<>>
  /\ chipContext = IF options.dragScroll THEN PixiAppChipContext ELSE HostContext
  /\ wheelListeners = 0
  /\ outcome = NoOutcome

(* ------------------- the chips of booyahPixi.ts: values ---------------- *)

\* a property value: a number, or a point
number(n) == [isNumber |-> TRUE, x |-> n, y |-> n]

point(x, y) == [isNumber |-> FALSE, x |-> x, y |-> y]

\* the properties of a display object the options can name; position is an
\* ObservablePoint, alpha a number
PropertyNames == {"position", "alpha"}

ObservablePoints == {"position"}

\* a property of the options: not given, a plain value, or a value function
Resolvables == {"absent", "value", "function"}

\* the plain value a property is configured with
PlainValue == number(2)

\* the value function a property is configured with, applied to
\* valueFunctionOptions: it follows the render size
valueFunction(property, rs) ==
  IF property = "position" THEN point(rs, 0) ELSE number(rs)

\* updateProperty(displayObject, property, value)
updateProperty(displayObject, property, value) ==
  IF property \in ObservablePoints
  THEN IF value.isNumber
       THEN [displayObject EXCEPT ![property] = point(value.x, value.x)]
       ELSE [displayObject EXCEPT ![property] = point(value.x, value.y)]
  ELSE [displayObject EXCEPT ![property] = value]

\* a display object as PIXI creates it
NewDisplayObject == [position |-> point(0, 0), alpha |-> number(1)]

\* the properties loop of _onActivate: each configured property is resolved
\* (a function is called with the render size) and written
resolveAll(properties, displayObject, rs) ==
  [property \in PropertyNames |->
     IF properties[property] = "absent" THEN displayObject[property]
     ELSE updateProperty(displayObject, property,
            IF properties[property] = "function"
            THEN valueFunction(property, rs)
            ELSE PlainValue)[property]]

\* the keys of options.properties in the order `for ... in` visits them
PropertyOrder == <<"position", "alpha">>

\* the properties _onActivate writes, in the order it writes them
givenProperties(properties) ==
  SelectSeq(PropertyOrder, LAMBDA property : properties[property] # "absent")

\* the properties _onActivate pushes on _propertiesToUpdateOnResize
functionProperties(properties) ==
  SelectSeq(PropertyOrder, LAMBDA property : properties[property] = "function")

\* the loop of _onResize over _propertiesToUpdateOnResize
updateOnResize(toUpdate, displayObject, rs) ==
  [property \in PropertyNames |->
     IF \E i \in 1..Len(toUpdate) : toUpdate[i] = property
     THEN updateProperty(displayObject, property,
                         valueFunction(property, rs))[property]
     ELSE displayObject[property]]

\* what a callback received: the display object and the render size
CallbackArgs(displayObject, rs) == [displayObject |-> displayObject, renderSize |-> rs]

(* --------------------------- DisplayObjectChip ------------------------- *)

DisplayObjectChipOptions ==
  [properties : [PropertyNames -> Resolvables],
   onResize : BOOLEAN,
   addToContainer : BOOLEAN]

\* the options when none are given
DefaultDisplayObjectChipOptions ==
  [properties |-> [property \in PropertyNames |-> "absent"],
   onResize |-> FALSE,
   addToContainer |-> TRUE]

\* new DisplayObjectChip(displayObject, options); assigned and onResizeArgs
\* record what the step that ran last wrote and passed to options.onResize
NewDisplayObjectChip(opts) ==
  [options |-> opts,
   chipState |-> "inactive",
   subscribed |-> FALSE,
   propertiesToUpdateOnResize |-> <<>>,
   displayObject |-> NewDisplayObject,
   assigned |-> <<>>,
   onResizeArgs |-> <<>>]

\* a child of this._chipContext.container
Child(kind, id) == <<kind, id>>

(* --------------------------- AnimatedSpriteChip ------------------------ *)

\* options.animationName; "undefined" when it is not given
AnimationNames == {"undefined", "idle", "jump"}

\* the spritesheets: the animation "idle", on one sheet or continued on a
\* linked sheet that has, or lacks, the images the animation names
Spritesheets ==
  {[animations |-> {"idle"}, linkedSheets |-> 0, imagesFound |-> TRUE],
   [animations |-> {"idle"}, linkedSheets |-> 1, imagesFound |-> TRUE],
   [animations |-> {"idle"}, linkedSheets |-> 1, imagesFound |-> FALSE]}

\* the property settings of the sprite
SpriteProperties ==
  {[property \in PropertyNames |-> "absent"],
   [position |-> "function", alpha |-> "value"]}

AnimatedSpriteChipOptions ==
  [behaviorOnComplete : {"loop", "remove", "keepLastFrame"},
   behaviorOnStart : {"play", "stop"},
   animationName : AnimationNames,
   prepare : BOOLEAN,
   properties : SpriteProperties,
   onResize : BOOLEAN]

\* the options when none are given
DefaultAnimatedSpriteChipOptions ==
  [behaviorOnComplete |-> "remove",
   behaviorOnStart |-> "play",
   animationName |-> "undefined",
   prepare |-> FALSE,
   properties |-> [property \in PropertyNames |-> "absent"],
   onResize |-> FALSE]

\* the message of the error for an animation the spritesheet does not have
CantFindAnimation(name) ==
  IF name = "jump" THEN "Can't find animation \"jump\" in spritesheet"
  ELSE IF name = "idle" THEN "Can't find animation \"idle\" in spritesheet"
  ELSE "Can't find animation \"undefined\" in spritesheet"

\* the message of the error for an image no linked sheet has
CannotFindImage(name) ==
  IF name = "jump" THEN "Cannot find image needed for animation \"jump\""
  ELSE IF name = "idle" THEN "Cannot find image needed for animation \"idle\""
  ELSE "Cannot find image needed for animation \"undefined\""

\* new PIXI.AnimatedSprite(textures, false): it loops by default
NewAnimatedSprite(id) ==
  [id |-> id, loop |-> TRUE, onComplete |-> FALSE, playing |-> FALSE,
   currentFrame |-> 0, properties |-> NewDisplayObject]

\* new AnimatedSpriteChip(spritesheet, options); created counts the sprites
\* made so far, uploads the pending callbacks of renderer.prepare.upload
NewAnimatedSpriteChip(sheet, opts) ==
  [options |-> opts,
   spritesheet |-> sheet,
   chipState |-> "inactive",
   subscribed |-> FALSE,
   animatedSprite |-> <<>>,
   wasPlaying |-> FALSE,
   wasAdded |-> "undefined",
   created |-> 0,
   uploads |-> 0,
   propertiesToUpdateOnResize |-> <<>>,
   assigned |-> <<>>,
   onResizeArgs |-> <<>>]

(* ------------------------------- Loader -------------------------------- *)

\* initOptions is given or not; a list of bundles is "undefined" when it
\* is not given and is named by its content otherwise
LoaderOptions ==
  [initOptions : BOOLEAN,
   bundlesToLoad : {"undefined", "images"},
   bundlesToBackgroundLoad : {"undefined", "music"}]

\* a run of _startLoading: the await it is suspended at ("init", "load") or
\* "done", what it has awaited, where it was when progress was emitted for
\* it, and the calls of _terminateSelf it made
Flow(at) ==
  [at |-> at, initDone |-> FALSE, loadDone |-> FALSE, progressAt |-> {},
   requests |-> 0]

\* new Loader(options); flows are the runs of _startLoading so far,
\* backgroundLoads the bundle lists passed to the loadBundle call that is
\* not awaited
NewLoader(opts) ==
  [options |-> opts,
   chipState |-> "inactive",
   flows |-> <<>>,
   backgroundLoads |-> {}]

\* the chips of booyahPixi.ts as constructed without options
IdleDisplayObjectChip == NewDisplayObjectChip(DefaultDisplayObjectChipOptions)

IdleAnimatedSpriteChip ==
  NewAnimatedSpriteChip([animations |-> {"idle"}, linkedSheets |-> 0,
                         imagesFound |-> TRUE],
                        DefaultAnimatedSpriteChipOptions)

IdleLoader ==
  NewLoader([initOptions |-> FALSE, bundlesToLoad |-> "undefined",
             bundlesToBackgroundLoad |-> "undefined"])

\* a PixiAppChip with an empty stage
PixiAppChipActive ==
  /\ renderSize = 1
  /\ container = {}

HelpersConstructed ==
  /\ PixiAppChipActive
  /\ displayObjectChip = IdleDisplayObjectChip
  /\ animatedSpriteChip = IdleAnimatedSpriteChip
  /\ loader = IdleLoader

Init ==
  /\ ScrollboxConstructed
  /\ HelpersConstructed

(* ----------------------------- operations ------------------------------ *)

\* _updateScrollbars, reading the content position pos
_updateScrollbars(opts, sz, posX, bar) ==
  LET boxSize == Num(opts.boxWidth)
      contentSize == Num(sz.w)
      ratio == Div(boxSize, contentSize)
  IN  [bar EXCEPT !.ratio = ratio,
                  !.backgroundWidth = boxSize,
                  !.handleWidth = Mul(boxSize, ratio),
                  !.handleX = Mul(Neg(posX), ratio)]

\* the position scrollTo writes to the content for a requested position
clampedPosition(opts, sz, position) ==
  Point(clamp(position.x, Num(opts.boxWidth - sz.w), Zero),
        clamp(position.y, Num(opts.boxHeight - sz.h), Zero))

\* what a listener reads when it is notified: the content position and the
\* scrollbar as they are at the emit
Seen(position, bar) == [position |-> position, scrollbar |-> bar]

\* the reason parameter with its default value
reasonOrDefault(reason) == IF reason = "undefined" THEN "user" ELSE reason

\* scrollTo that notifies only when the content position changes
scrollTo_notifyOnChange(position, reason) ==
  LET p == clampedPosition(options, size, position)
  IN  /\ content' = [content EXCEPT !.x = p.x, !.y = p.y]
      /\ scrollbar' = _updateScrollbars(options, size, p.x, scrollbar)
      /\ emitted' = IF p = Point(content.x, content.y)
                    THEN <<>> ELSE <<Moved(reasonOrDefault(reason))>>
      /\ observed' = IF p = Point(content.x, content.y) THEN <<>>
                     ELSE <<Seen(p, _updateScrollbars(options, size, p.x, scrollbar))>>

\* scrollTo(position, reason)
scrollTo(position, reason) ==
  LET p == clampedPosition(options, size, position)
  IN  /\ content' = [content EXCEPT !.x = p.x, !.y = p.y]
      /\ scrollbar' = _updateScrollbars(options, size, p.x, scrollbar)
      /\ emitted' = <<Moved(reasonOrDefault(reason))>>
      /\ observed' = <<Seen(p, _updateScrollbars(options, size, p.x, scrollbar))>>

\* scrollBy that does not forward its reason
scrollBy_reasonDropped(amount, reason) ==
  scrollTo(add(Point(content.x, content.y), amount), "undefined")

\* scrollBy(amount, reason)
scrollBy(amount, reason) ==
  scrollTo(add(Point(content.x, content.y), amount), reason)

\* _onActivate that keeps the gesture of the activation before
Activate_keepsGesture ==
  /\ status \in {"constructed", "terminated"}
  /\ wheelListeners < MaxListeners
  /\ status' = "active"
  /\ wheelListeners' = IF options.wheelScroll THEN wheelListeners + 1
                                              ELSE wheelListeners
  /\ outcome' = NoOutcome
  /\ UNCHANGED <<chipContext, helperVars>>
  /\ pointerDown' = pointerDown
  /\ content' = [x |-> Zero, y |-> Zero, interactiveChildren |-> TRUE]
  /\ scrollbar' = _updateScrollbars(options, size, Zero, scrollbar)
  /\ emitted' = <<Refreshed>>
  /\ observed' = <<Seen(Point(Zero, Zero),
                        _updateScrollbars(options, size, Zero, scrollbar))>>
  /\ lastOp' = Op("activate", NoArg)
  /\ UNCHANGED <<options, size, scrollbarVisible>>

\* _onActivate: fresh content, no gesture, a new wheel listener on
\* pixiApplication.view when wheelScroll is set, then refresh()
Activate ==
  /\ status \in {"constructed", "terminated"}
  /\ wheelListeners < MaxListeners
  /\ status' = "active"
  /\ wheelListeners' = IF options.wheelScroll THEN wheelListeners + 1
                                              ELSE wheelListeners
  /\ outcome' = NoOutcome
  /\ UNCHANGED <<chipContext, helperVars>>
  /\ pointerDown' = <<>>
  /\ content' = [x |-> Zero, y |-> Zero, interactiveChildren |-> TRUE]
  /\ scrollbar' = _updateScrollbars(options, size, Zero, scrollbar)
  /\ emitted' = <<Refreshed>>
  /\ observed' = <<Seen(Point(Zero, Zero),
                        _updateScrollbars(options, size, Zero, scrollbar))>>
  /\ lastOp' = Op("activate", NoArg)
  /\ UNCHANGED <<options, size, scrollbarVisible>>

\* _onTerminate: removes onWheelHandler from app.view; reading .view of a
\* missing app is a TypeError
Terminate ==
  /\ status = "active"
  /\ status' = "terminated"
  /\ emitted' = <<>>
  /\ observed' = <<>>
  /\ lastOp' = Op("terminate", NoArg)
  /\ IF ~ options.wheelScroll
     THEN UNCHANGED wheelListeners /\ outcome' = NoOutcome
     ELSE IF "app" \notin chipContext
     THEN UNCHANGED wheelListeners /\ outcome' = Outcome(FALSE, FALSE, "TypeError")
     ELSE wheelListeners' = wheelListeners - 1 /\ outcome' = NoOutcome
  /\ UNCHANGED <<chipContext, helperVars>>
  /\ UNCHANGED <<options, size, content, pointerDown, scrollbar, scrollbarVisible>>

\* the owner adds, removes or resizes children of this.content
ResizeContent ==
  /\ status = "active"
  /\ \E ch \in ChildSizes :
       /\ contentBounds(options, ch) # size
       /\ size' = contentBounds(options, ch)
  /\ emitted' = <<>>
  /\ observed' = <<>>
  /\ lastOp' = Op("resizeContent", NoArg)
  /\ outcome' = NoOutcome
  /\ UNCHANGED <<chipContext, wheelListeners, helperVars>>
  /\ UNCHANGED <<options, status, content, pointerDown, scrollbar, scrollbarVisible>>

\* refresh() that emits refreshed before it calls _updateScrollbars
Refresh_emitsFirst ==
  /\ status = "active"
  /\ scrollbar' = _updateScrollbars(options, size, content.x, scrollbar)
  /\ emitted' = <<Refreshed>>
  /\ observed' = <<Seen(Point(content.x, content.y), scrollbar)>>
  /\ lastOp' = Op("refresh", NoArg)
  /\ outcome' = NoOutcome
  /\ UNCHANGED <<chipContext, wheelListeners, helperVars>>
  /\ UNCHANGED <<options, status, size, content, pointerDown, scrollbarVisible>>

\* refresh()
Refresh ==
  /\ status = "active"
  /\ scrollbar' = _updateScrollbars(options, size, content.x, scrollbar)
  /\ emitted' = <<Refreshed>>
  /\ observed' = <<Seen(Point(content.x, content.y),
                        _updateScrollbars(options, size, content.x, scrollbar))>>
  /\ lastOp' = Op("refresh", NoArg)
  /\ outcome' = NoOutcome
  /\ UNCHANGED <<chipContext, wheelListeners, helperVars>>
  /\ UNCHANGED <<options, status, size, content, pointerDown, scrollbarVisible>>

\* a call of scrollTo by the owner; scrollTo assigns the clamped coordinates
\* to the x and y of the point it was given
ScrollTo(p, r) ==
  /\ status = "active"
  /\ scrollTo(p, r)
  /\ lastOp' = [Call("scrollTo", p, r) EXCEPT
                  !.position = clampedPosition(options, size, p)]
  /\ outcome' = NoOutcome
  /\ UNCHANGED <<chipContext, wheelListeners, helperVars>>
  /\ UNCHANGED <<options, status, size, pointerDown, scrollbarVisible>>

\* a call of scrollBy by the owner
ScrollBy(amount, r) ==
  /\ status = "active"
  /\ scrollBy(amount, r)
  /\ lastOp' = Call("scrollBy", amount, r)
  /\ outcome' = NoOutcome
  /\ UNCHANGED <<chipContext, wheelListeners, helperVars>>
  /\ UNCHANGED <<options, status, size, pointerDown, scrollbarVisible>>

(* -------------------------- pointer handlers --------------------------- *)

\* a gesture record that carries no type
Gesture_untyped(type, direction, last) ==
  [type |-> "undefined", direction |-> direction, last |-> last]

\* this.pointerDown = {type, direction, last}
Gesture(type, direction, last) == [type |-> type, direction |-> direction, last |-> last]

\* _scrollbarDown that records the point in the space of the container
_scrollbarDown_containerSpace(g) ==
  IF pointerDown # <<>>
  THEN /\ UNCHANGED <<pointerDown, content, scrollbar>>
       /\ outcome' = NoOutcome
       /\ lastOp' = Handled("scrollbarDown", "ignored")
  ELSE /\ pointerDown' = <<Gesture("scrollbar", "horizontal", containerToLocal(g))>>
       /\ UNCHANGED <<content, scrollbar>>
       /\ outcome' = Outcome(options.stopPropagation, FALSE, "none")
       /\ lastOp' = Handled("scrollbarDown", "accepted")

\* _scrollbarDown(e): pointerdown on the scrollbar handle
_scrollbarDown(g) ==
  IF pointerDown # <<>>
  THEN /\ UNCHANGED <<pointerDown, content, scrollbar>>
       /\ outcome' = NoOutcome
       /\ lastOp' = Handled("scrollbarDown", "ignored")
  ELSE /\ pointerDown' = <<Gesture("scrollbar", "horizontal",
                                    scrollbarAnchorToLocal(options, g))>>
       /\ UNCHANGED <<content, scrollbar>>
       /\ outcome' = Outcome(options.stopPropagation, FALSE, "none")
       /\ lastOp' = Handled("scrollbarDown", "accepted")

\* _dragDown without the guard on an active gesture
_dragDown_unguarded(g) ==
  /\ content' = [content EXCEPT !.interactiveChildren = FALSE]
  /\ pointerDown' = <<Gesture("drag", "undefined", containerToLocal(g))>>
  /\ UNCHANGED scrollbar
  /\ outcome' = NoOutcome
  /\ lastOp' = Handled("dragDown", "accepted")

\* _dragDown(e): pointerdown on the content
_dragDown(g) ==
  IF pointerDown # <<>>
  THEN /\ UNCHANGED <<pointerDown, content, scrollbar>>
       /\ outcome' = NoOutcome
       /\ lastOp' = Handled("dragDown", "ignored")
  ELSE /\ content' = [content EXCEPT !.interactiveChildren = FALSE]
       /\ pointerDown' = <<Gesture("drag", "undefined", containerToLocal(g))>>
       /\ UNCHANGED scrollbar
       /\ outcome' = NoOutcome
       /\ lastOp' = Handled("dragDown", "accepted")

\* _scrollbarMove that writes the content position itself
_scrollbarMove_writesContent(g) ==
  /\ IF pointerDown[1].direction = "horizontal"
     THEN LET local == scrollbarAnchorToLocal(options, g)
              deltaPosition == Minus(local.x, pointerDown[1].last.x)
              fraction == Div(deltaPosition, scrollbar.ratio)
              p == clampedPosition(options, size,
                                   Point(Minus(content.x, fraction), content.y))
          IN  /\ content' = [content EXCEPT !.x = p.x, !.y = p.y]
              /\ scrollbar' = _updateScrollbars(options, size, p.x, scrollbar)
              /\ emitted' = <<>>
              /\ observed' = <<>>
              /\ pointerDown' = <<[pointerDown[1] EXCEPT !.last = local]>>
     ELSE /\ UNCHANGED <<pointerDown, content, scrollbar>>
          /\ emitted' = <<>>
          /\ observed' = <<>>
  /\ outcome' = Outcome(options.stopPropagation, FALSE, "none")

\* _scrollbarMove(e)
_scrollbarMove(g) ==
  /\ IF pointerDown[1].direction = "horizontal"
     THEN LET local == scrollbarAnchorToLocal(options, g)
              deltaPosition == Minus(local.x, pointerDown[1].last.x)
              fraction == Div(deltaPosition, scrollbar.ratio)
          IN  /\ scrollBy(Point(Neg(fraction), Zero), "undefined")
              /\ pointerDown' = <<[pointerDown[1] EXCEPT !.last = local]>>
     ELSE /\ UNCHANGED <<pointerDown, content, scrollbar>>
          /\ emitted' = <<>>
          /\ observed' = <<>>
  /\ outcome' = Outcome(options.stopPropagation, FALSE, "none")

\* _dragMove that records every point as the last one, also of ignored moves
_dragMove_lastAlwaysRecorded(g) ==
  /\ LET local == containerToLocal(g)
     IN  IF distanceLeq(local, pointerDown[1].last, Num(options.dragThreshold))
         THEN /\ pointerDown' = <<[pointerDown[1] EXCEPT !.last = local]>>
              /\ UNCHANGED <<content, scrollbar>>
              /\ emitted' = <<>>
              /\ observed' = <<>>
         ELSE /\ scrollBy(subtract(local, pointerDown[1].last), "undefined")
              /\ pointerDown' = <<[pointerDown[1] EXCEPT !.last = local]>>
  /\ outcome' = NoOutcome

\* _dragMove(e)
_dragMove(g) ==
  /\ LET local == containerToLocal(g)
     IN  IF distanceLeq(local, pointerDown[1].last, Num(options.dragThreshold))
         THEN /\ UNCHANGED <<pointerDown, content, scrollbar>>
              /\ emitted' = <<>>
              /\ observed' = <<>>
         ELSE /\ scrollBy(subtract(local, pointerDown[1].last), "undefined")
              /\ pointerDown' = <<[pointerDown[1] EXCEPT !.last = local]>>
  /\ outcome' = NoOutcome

\* _scrollbarUp()
_scrollbarUp ==
  /\ pointerDown' = <<>>
  /\ content' = [content EXCEPT !.interactiveChildren = TRUE]

\* _dragUp that leaves the children of the content non-interactive
_dragUp_childrenStayInert ==
  /\ pointerDown' = <<>>
  /\ UNCHANGED content

\* _dragUp()
_dragUp ==
  /\ pointerDown' = <<>>
  /\ content' = [content EXCEPT !.interactiveChildren = TRUE]

\* pointerdown delivered to the scrollbar handle
ScrollbarDown(g) ==
  /\ status = "active"
  /\ _scrollbarDown(g)
  /\ emitted' = <<>>
  /\ observed' = <<>>
  /\ UNCHANGED <<options, status, size, scrollbarVisible, chipContext, wheelListeners,
                 helperVars>>

\* pointerdown delivered to the content (subscribed when dragScroll is set)
DragDown(g) ==
  /\ status = "active"
  /\ options.dragScroll
  /\ _dragDown(g)
  /\ emitted' = <<>>
  /\ observed' = <<>>
  /\ UNCHANGED <<options, status, size, scrollbarVisible, chipContext, wheelListeners,
                 helperVars>>

\* _onMove that throws when there is no gesture
OnMove_idleThrows(g) ==
  /\ status = "active"
  /\ IF pointerDown = <<>>
     THEN /\ UNCHANGED <<pointerDown, content, scrollbar>>
          /\ emitted' = <<>>
          /\ observed' = <<>>
          /\ outcome' = Outcome(FALSE, FALSE, "no such type")
          /\ lastOp' = Handled("onMove", "idle")
     ELSE IF pointerDown[1].type = "scrollbar"
     THEN _scrollbarMove(g) /\ lastOp' = Handled("onMove", "scrollbar")
     ELSE _dragMove(g) /\ lastOp' = Handled("onMove", "drag")
  /\ UNCHANGED <<options, status, size, scrollbarVisible, chipContext, wheelListeners,
                 helperVars>>

\* _onMove(e): globalpointermove on the container
OnMove(g) ==
  /\ status = "active"
  /\ IF pointerDown = <<>>
     THEN /\ UNCHANGED <<pointerDown, content, scrollbar>>
          /\ emitted' = <<>>
          /\ observed' = <<>>
          /\ outcome' = NoOutcome
          /\ lastOp' = Handled("onMove", "idle")
     ELSE IF pointerDown[1].type = "scrollbar"
     THEN _scrollbarMove(g) /\ lastOp' = Handled("onMove", "scrollbar")
     ELSE IF pointerDown[1].type = "drag"
     THEN _dragMove(g) /\ lastOp' = Handled("onMove", "drag")
     ELSE /\ UNCHANGED <<pointerDown, content, scrollbar>>
          /\ emitted' = <<>>
          /\ observed' = <<>>
          /\ outcome' = Outcome(FALSE, FALSE, "no such type")
          /\ lastOp' = Handled("onMove", "error")
  /\ UNCHANGED <<options, status, size, scrollbarVisible, chipContext, wheelListeners,
                 helperVars>>

\* _onUp that ends a gesture of any tag
OnUp_endsAnyGesture(kind) ==
  /\ status = "active"
  /\ kind \in PointerUpEvents
  /\ IF pointerDown = <<>>
     THEN /\ UNCHANGED <<pointerDown, content>>
          /\ outcome' = NoOutcome
          /\ lastOp' = Handled("onUp", "idle")
     ELSE IF pointerDown[1].type = "scrollbar"
     THEN _scrollbarUp /\ outcome' = NoOutcome /\ lastOp' = Handled("onUp", "scrollbar")
     ELSE IF pointerDown[1].type = "drag"
     THEN _dragUp /\ outcome' = NoOutcome /\ lastOp' = Handled("onUp", "drag")
     ELSE _dragUp /\ outcome' = NoOutcome /\ lastOp' = Handled("onUp", "error")
  /\ emitted' = <<>>
  /\ observed' = <<>>
  /\ UNCHANGED <<options, status, size, scrollbar, scrollbarVisible, chipContext,
                 wheelListeners, helperVars>>

\* _onUp(e): pointerup, pointercancel or pointerupoutside on the container
OnUp(kind) ==
  /\ status = "active"
  /\ kind \in PointerUpEvents
  /\ IF pointerDown = <<>>
     THEN /\ UNCHANGED <<pointerDown, content>>
          /\ outcome' = NoOutcome
          /\ lastOp' = Handled("onUp", "idle")
     ELSE IF pointerDown[1].type = "scrollbar"
     THEN _scrollbarUp /\ outcome' = NoOutcome /\ lastOp' = Handled("onUp", "scrollbar")
     ELSE IF pointerDown[1].type = "drag"
     THEN _dragUp /\ outcome' = NoOutcome /\ lastOp' = Handled("onUp", "drag")
     ELSE /\ UNCHANGED <<pointerDown, content>>
          /\ outcome' = Outcome(FALSE, FALSE, "no such type")
          /\ lastOp' = Handled("onUp", "error")
  /\ emitted' = <<>>
  /\ observed' = <<>>
  /\ UNCHANGED <<options, status, size, scrollbar, scrollbarVisible, chipContext,
                 wheelListeners, helperVars>>

\* _onWheel that suppresses the default action before looking at the event
OnWheel_preventsFirst(deltaY, visible, hit) ==
  /\ wheelListeners > 0
  /\ lastOp' = IF ~ visible THEN Handled("wheel", "invisible")
                ELSE IF ~ hit THEN Handled("wheel", "miss")
                ELSE Call("wheel", Point(Zero, Num(deltaY)), "hit")
  /\ outcome' = IF ~ visible THEN Outcome(FALSE, TRUE, "none")
                ELSE IF "app" \notin chipContext
                THEN Outcome(FALSE, TRUE, "TypeError")
                ELSE Outcome(FALSE, TRUE, "none")
  /\ emitted' = <<>>
  /\ observed' = <<>>
  /\ UNCHANGED <<options, status, size, content, pointerDown, scrollbar,
                 scrollbarVisible, chipContext, wheelListeners,
                 helperVars>>

\* _onWheel(e): a wheel event on the render surface reaches a registered
\* listener; visible is container.worldVisible, hit the result of the hit
\* test of the pointer position against the container
OnWheel(deltaY, visible, hit) ==
  /\ wheelListeners > 0
  /\ lastOp' = IF ~ visible THEN Handled("wheel", "invisible")
                ELSE IF ~ hit THEN Handled("wheel", "miss")
                ELSE Call("wheel", Point(Zero, Num(deltaY)), "hit")
  /\ outcome' = IF ~ visible THEN NoOutcome
                ELSE IF "app" \notin chipContext
                THEN Outcome(FALSE, FALSE, "TypeError")
                ELSE IF ~ hit THEN NoOutcome
                ELSE Outcome(FALSE, TRUE, "none")
  /\ emitted' = <<>>
  /\ observed' = <<>>
  /\ UNCHANGED <<options, status, size, content, pointerDown, scrollbar,
                 scrollbarVisible, chipContext, wheelListeners,
                 helperVars>>

Next ==
  \/ Activate
  \/ Terminate
  \/ ResizeContent
  \/ Refresh
  \/ \E p \in Arguments, r \in Reasons : ScrollTo(p, r)
  \/ \E amount \in Arguments, r \in Reasons : ScrollBy(amount, r)
  \/ \E g \in GlobalPoints : ScrollbarDown(g)
  \/ \E g \in GlobalPoints : DragDown(g)
  \/ \E g \in GlobalPoints : OnMove(g)
  \/ \E kind \in PointerUpEvents : OnUp(kind)
  \/ \E e \in WheelEvents : OnWheel(e.deltaY, e.visible, e.hit)

Spec == Init /\ [][Next]_vars

\* the owner assigns the public field pointerDown a record whose type is
\* neither "scrollbar" nor "drag"
AssignPointerDown(g) ==
  /\ status = "active"
  /\ pointerDown' = <<Gesture("pinch", "undefined", containerToLocal(g))>>
  /\ lastOp' = Op("assignPointerDown", NoArg)
  /\ emitted' = <<>>
  /\ observed' = <<>>
  /\ outcome' = NoOutcome
  /\ UNCHANGED <<options, status, size, content, scrollbar, scrollbarVisible,
                 chipContext, wheelListeners, helperVars>>

\* a Scrollbox with default options and overflowing content whose owner
\* writes pointerDown
InitDispatch ==
  /\ Init
  /\ options = DefaultOptions
  /\ size = [w |-> MaxContentW, h |-> DefaultOptions.boxHeight]

NextDispatch ==
  \/ Activate
  \/ Terminate
  \/ \E g \in GlobalPoints : AssignPointerDown(g)
  \/ \E g \in GlobalPoints : ScrollbarDown(g)
  \/ \E g \in GlobalPoints : DragDown(g)
  \/ \E g \in GlobalPoints : OnMove(g)
  \/ \E kind \in PointerUpEvents : OnUp(kind)

SpecDispatch == InitDispatch /\ [][NextDispatch]_vars

(* ---------------------- DisplayObjectChip: handlers -------------------- *)

\* the display object handled by the DisplayObjectChip, as a child
TheDisplayObject == Child("displayObject", 0)

\* the notification of PixiAppChip._onResize
Resized == [name |-> "resize", reason |-> "none"]

\* _onActivate that does not empty _propertiesToUpdateOnResize
DisplayActivate_keepsList ==
  /\ displayObjectChip.chipState = "inactive"
  /\ LET c == displayObjectChip
         o == c.options
         given == givenProperties(o.properties)
         functions == functionProperties(o.properties)
         obj == resolveAll(o.properties, c.displayObject, renderSize)
     IN  /\ displayObjectChip' =
              [c EXCEPT !.chipState = "active",
                        !.propertiesToUpdateOnResize =
                           c.propertiesToUpdateOnResize \o functions,
                        !.displayObject = obj,
                        !.assigned = given,
                        !.onResizeArgs = IF o.onResize
                                         THEN <<CallbackArgs(obj, renderSize)>>
                                         ELSE <<>>,
                        !.subscribed = TRUE]
         /\ container' = IF o.addToContainer
                         THEN container \cup {TheDisplayObject}
                         ELSE container
  /\ lastOp' = Op("displayActivate", NoArg)
  /\ emitted' = <<>>
  /\ observed' = <<>>
  /\ outcome' = NoOutcome
  /\ UNCHANGED <<scrollVars, renderSize, animatedSpriteChip, loader>>

\* DisplayObjectChip._onActivate
DisplayActivate ==
  /\ displayObjectChip.chipState = "inactive"
  /\ LET c == displayObjectChip
         o == c.options
         given == givenProperties(o.properties)
         functions == functionProperties(o.properties)
         obj == resolveAll(o.properties, c.displayObject, renderSize)
     IN  /\ displayObjectChip' =
              [c EXCEPT !.chipState = "active",
                        !.propertiesToUpdateOnResize = functions,
                        !.displayObject = obj,
                        !.assigned = given,
                        !.onResizeArgs = IF o.onResize
                                         THEN <<CallbackArgs(obj, renderSize)>>
                                         ELSE <<>>,
                        !.subscribed = TRUE]
         /\ container' = IF o.addToContainer
                         THEN container \cup {TheDisplayObject}
                         ELSE container
  /\ lastOp' = Op("displayActivate", NoArg)
  /\ emitted' = <<>>
  /\ observed' = <<>>
  /\ outcome' = NoOutcome
  /\ UNCHANGED <<scrollVars, renderSize, animatedSpriteChip, loader>>

\* _onTerminate that leaves the display object in the container
DisplayTerminate_leavesChild ==
  /\ displayObjectChip.chipState = "active"
  /\ displayObjectChip' =
       [displayObjectChip EXCEPT !.chipState = "inactive",
                                 !.subscribed = FALSE,
                                 !.assigned = <<>>,
                                 !.onResizeArgs = <<>>]
  /\ container' = container
  /\ lastOp' = Op("displayTerminate", NoArg)
  /\ emitted' = <<>>
  /\ observed' = <<>>
  /\ outcome' = NoOutcome
  /\ UNCHANGED <<scrollVars, renderSize, animatedSpriteChip, loader>>

\* DisplayObjectChip._onTerminate, and the chip dropping its subscriptions
DisplayTerminate ==
  /\ displayObjectChip.chipState = "active"
  /\ displayObjectChip' =
       [displayObjectChip EXCEPT !.chipState = "inactive",
                                 !.subscribed = FALSE,
                                 !.assigned = <<>>,
                                 !.onResizeArgs = <<>>]
  /\ container' = IF displayObjectChip.options.addToContainer
                  THEN container \ {TheDisplayObject}
                  ELSE container
  /\ lastOp' = Op("displayTerminate", NoArg)
  /\ emitted' = <<>>
  /\ observed' = <<>>
  /\ outcome' = NoOutcome
  /\ UNCHANGED <<scrollVars, renderSize, animatedSpriteChip, loader>>

\* DisplayObjectChip._onResize, for a chip that is subscribed
displayOnResize(c, rs) ==
  IF c.subscribed
  THEN [c EXCEPT !.displayObject =
                    updateOnResize(c.propertiesToUpdateOnResize, c.displayObject, rs),
                 !.assigned = c.propertiesToUpdateOnResize,
                 !.onResizeArgs = <<>>]
  ELSE [c EXCEPT !.assigned = <<>>, !.onResizeArgs = <<>>]

\* the owner of a display object that the chip does not add (addToContainer
\* false) adds it to the container or removes it
HostAddChild ==
  /\ ~ displayObjectChip.options.addToContainer
  /\ container' = container \cup {TheDisplayObject}
  /\ lastOp' = Op("hostAddChild", NoArg)
  /\ emitted' = <<>>
  /\ observed' = <<>>
  /\ outcome' = NoOutcome
  /\ UNCHANGED <<scrollVars, renderSize, displayObjectChip, animatedSpriteChip, loader>>

HostRemoveChild ==
  /\ ~ displayObjectChip.options.addToContainer
  /\ container' = container \ {TheDisplayObject}
  /\ lastOp' = Op("hostRemoveChild", NoArg)
  /\ emitted' = <<>>
  /\ observed' = <<>>
  /\ outcome' = NoOutcome
  /\ UNCHANGED <<scrollVars, renderSize, displayObjectChip, animatedSpriteChip, loader>>

(* --------------------- AnimatedSpriteChip: handlers -------------------- *)

\* the sprite of the chip, as a child of the container
SpriteChild(sprite) == Child("animatedSprite", sprite.id)

\* AnimatedSpriteChip._onTerminate, and the chip dropping its subscriptions
spriteTerminated(c) ==
  [c EXCEPT !.wasAdded = IF c.wasAdded = "true" THEN "false" ELSE c.wasAdded,
            !.animatedSprite = <<>>,
            !.chipState = "inactive",
            !.subscribed = FALSE,
            !.assigned = <<>>,
            !.onResizeArgs = <<>>]

\* the children of the container after _onTerminate
containerAfterTerminate(c) ==
  IF c.wasAdded = "true" /\ c.animatedSprite # <<>>
  THEN container \ {SpriteChild(c.animatedSprite[1])}
  ELSE container

\* _onActivate that creates the sprite and subscribes before it looks the
\* animation up
SpriteActivate_createsFirst ==
  /\ animatedSpriteChip.chipState = "inactive"
  /\ animatedSpriteChip.created < MaxSprites
  /\ animatedSpriteChip.options.prepare => animatedSpriteChip.uploads < MaxUploads
  /\ LET c == animatedSpriteChip
         o == c.options
         sheet == c.spritesheet
         named == o.animationName # "undefined"
         error == IF named /\ o.animationName \notin sheet.animations
                  THEN CantFindAnimation(o.animationName)
                  ELSE IF named /\ sheet.linkedSheets # 0 /\ ~ sheet.imagesFound
                  THEN CannotFindImage(o.animationName)
                  ELSE "none"
         created == NewAnimatedSprite(c.created + 1)
         functions == functionProperties(o.properties)
         given == givenProperties(o.properties)
         sprite ==
           [created EXCEPT
              !.properties = resolveAll(o.properties, created.properties, renderSize),
              !.loop = (o.behaviorOnComplete = "loop"),
              !.onComplete = (o.behaviorOnComplete = "remove"),
              !.currentFrame = 0,
              !.playing = (o.behaviorOnStart = "play")]
     IN  IF error # "none"
         THEN /\ \E state \in {"inactive", "active"} :
                   animatedSpriteChip' = [c EXCEPT !.wasPlaying = FALSE,
                                                   !.animatedSprite = <<created>>,
                                                   !.created = c.created + 1,
                                                   !.subscribed = TRUE,
                                                   !.chipState = state,
                                                   !.assigned = <<>>,
                                                   !.onResizeArgs = <<>>]
              /\ UNCHANGED container
              /\ outcome' = Outcome(FALSE, FALSE, error)
              /\ lastOp' = Handled("spriteActivate", "failed")
         ELSE /\ animatedSpriteChip' =
                   [c EXCEPT !.wasPlaying = FALSE,
                             !.animatedSprite = <<sprite>>,
                             !.created = c.created + 1,
                             !.propertiesToUpdateOnResize = functions,
                             !.assigned = given,
                             !.wasAdded = IF o.prepare THEN "false" ELSE "true",
                             !.uploads = IF o.prepare THEN c.uploads + 1 ELSE c.uploads,
                             !.onResizeArgs =
                                IF o.onResize
                                THEN <<CallbackArgs(sprite.properties, renderSize)>>
                                ELSE <<>>,
                             !.subscribed = TRUE,
                             !.chipState = "active"]
              /\ container' = container \cup {SpriteChild(sprite)}
              /\ outcome' = NoOutcome
              /\ lastOp' = Handled("spriteActivate", "activated")
  /\ emitted' = <<>>
  /\ observed' = <<>>
  /\ UNCHANGED <<scrollVars, renderSize, displayObjectChip, loader>>

\* AnimatedSpriteChip._onActivate; an activation that throws leaves the chip
\* in the state the caller of _onActivate gives it
SpriteActivate ==
  /\ animatedSpriteChip.chipState = "inactive"
  /\ animatedSpriteChip.created < MaxSprites
  /\ animatedSpriteChip.options.prepare => animatedSpriteChip.uploads < MaxUploads
  /\ LET c == animatedSpriteChip
         o == c.options
         sheet == c.spritesheet
         named == o.animationName # "undefined"
         error == IF named /\ o.animationName \notin sheet.animations
                  THEN CantFindAnimation(o.animationName)
                  ELSE IF named /\ sheet.linkedSheets # 0 /\ ~ sheet.imagesFound
                  THEN CannotFindImage(o.animationName)
                  ELSE "none"
         created == NewAnimatedSprite(c.created + 1)
         functions == functionProperties(o.properties)
         given == givenProperties(o.properties)
         sprite ==
           [created EXCEPT
              !.properties = resolveAll(o.properties, created.properties, renderSize),
              !.loop = (o.behaviorOnComplete = "loop"),
              !.onComplete = (o.behaviorOnComplete = "remove"),
              !.currentFrame = 0,
              !.playing = (o.behaviorOnStart = "play")]
     IN  IF error # "none"
         THEN /\ \E state \in {"inactive", "active"} :
                   animatedSpriteChip' = [c EXCEPT !.wasPlaying = FALSE,
                                                   !.chipState = state,
                                                   !.assigned = <<>>,
                                                   !.onResizeArgs = <<>>]
              /\ UNCHANGED container
              /\ outcome' = Outcome(FALSE, FALSE, error)
              /\ lastOp' = Handled("spriteActivate", "failed")
         ELSE /\ animatedSpriteChip' =
                   [c EXCEPT !.wasPlaying = FALSE,
                             !.animatedSprite = <<sprite>>,
                             !.created = c.created + 1,
                             !.propertiesToUpdateOnResize = functions,
                             !.assigned = given,
                             !.wasAdded = IF o.prepare THEN "false" ELSE "true",
                             !.uploads = IF o.prepare THEN c.uploads + 1 ELSE c.uploads,
                             !.onResizeArgs =
                                IF o.onResize
                                THEN <<CallbackArgs(sprite.properties, renderSize)>>
                                ELSE <<>>,
                             !.subscribed = TRUE,
                             !.chipState = "active"]
              /\ container' = container \cup {SpriteChild(sprite)}
              /\ outcome' = NoOutcome
              /\ lastOp' = Handled("spriteActivate", "activated")
  /\ emitted' = <<>>
  /\ observed' = <<>>
  /\ UNCHANGED <<scrollVars, renderSize, displayObjectChip, loader>>

\* the callback given to renderer.prepare.upload runs
PrepareUploaded ==
  /\ animatedSpriteChip.uploads > 0
  /\ LET c == [animatedSpriteChip EXCEPT !.uploads = animatedSpriteChip.uploads - 1,
                                         !.assigned = <<>>,
                                         !.onResizeArgs = <<>>]
     IN  IF c.chipState = "inactive"
         THEN /\ animatedSpriteChip' = c
              /\ UNCHANGED container
              /\ outcome' = NoOutcome
              /\ lastOp' = Handled("prepareUploaded", "inactive")
         ELSE IF c.animatedSprite = <<>>
         THEN /\ animatedSpriteChip' = c
              /\ UNCHANGED container
              /\ outcome' = Outcome(FALSE, FALSE, "TypeError")
              /\ lastOp' = Handled("prepareUploaded", "error")
         ELSE /\ animatedSpriteChip' = [c EXCEPT !.wasAdded = "true"]
              /\ container' = container \cup {SpriteChild(c.animatedSprite[1])}
              /\ outcome' = NoOutcome
              /\ lastOp' = Handled("prepareUploaded", "added")
  /\ emitted' = <<>>
  /\ observed' = <<>>
  /\ UNCHANGED <<scrollVars, renderSize, displayObjectChip, loader>>

\* _onTick of a sprite whose completion always terminates the chip
SpriteTick_completionTerminates ==
  /\ animatedSpriteChip.chipState = "active"
  /\ LET c == [animatedSpriteChip EXCEPT !.assigned = <<>>, !.onResizeArgs = <<>>]
     IN  IF c.animatedSprite = <<>>
         THEN /\ animatedSpriteChip' = c
              /\ UNCHANGED container
              /\ outcome' = Outcome(FALSE, FALSE, "TypeError")
              /\ lastOp' = Handled("spriteTick", "error")
         ELSE LET sprite == c.animatedSprite[1]
              IN  IF ~ sprite.playing
                  THEN /\ animatedSpriteChip' = c
                       /\ UNCHANGED container
                       /\ outcome' = NoOutcome
                       /\ lastOp' = Handled("spriteTick", "stopped")
                  ELSE IF sprite.currentFrame + 1 < NumFrames
                  THEN /\ animatedSpriteChip' =
                            [c EXCEPT !.animatedSprite[1].currentFrame =
                                         sprite.currentFrame + 1]
                       /\ UNCHANGED container
                       /\ outcome' = NoOutcome
                       /\ lastOp' = Handled("spriteTick", "advanced")
                  ELSE IF sprite.loop
                  THEN /\ animatedSpriteChip' =
                            [c EXCEPT !.animatedSprite[1].currentFrame = 0]
                       /\ UNCHANGED container
                       /\ outcome' = NoOutcome
                       /\ lastOp' = Handled("spriteTick", "looped")
                  ELSE IF FALSE
                  THEN /\ animatedSpriteChip' =
                            [c EXCEPT !.animatedSprite[1].playing = FALSE,
                                      !.animatedSprite[1].currentFrame = NumFrames - 1]
                       /\ UNCHANGED container
                       /\ outcome' = NoOutcome
                       /\ lastOp' = Handled("spriteTick", "completed")
                  ELSE /\ animatedSpriteChip' = spriteTerminated(c)
                       /\ container' = containerAfterTerminate(c)
                       /\ outcome' = NoOutcome
                       /\ lastOp' = Handled("spriteTick", "terminateSelf")
  /\ emitted' = <<>>
  /\ observed' = <<>>
  /\ UNCHANGED <<scrollVars, renderSize, displayObjectChip, loader>>

\* AnimatedSpriteChip._onTick: PIXI.AnimatedSprite.update advances a playing
\* sprite by a frame; past the last frame a looping sprite starts again, any
\* other sprite stops on the last frame and calls onComplete, which is
\* _onAnimationComplete: _terminateSelf()
SpriteTick ==
  /\ animatedSpriteChip.chipState = "active"
  /\ LET c == [animatedSpriteChip EXCEPT !.assigned = <<>>, !.onResizeArgs = <<>>]
     IN  IF c.animatedSprite = <<>>
         THEN /\ animatedSpriteChip' = c
              /\ UNCHANGED container
              /\ outcome' = Outcome(FALSE, FALSE, "TypeError")
              /\ lastOp' = Handled("spriteTick", "error")
         ELSE LET sprite == c.animatedSprite[1]
              IN  IF ~ sprite.playing
                  THEN /\ animatedSpriteChip' = c
                       /\ UNCHANGED container
                       /\ outcome' = NoOutcome
                       /\ lastOp' = Handled("spriteTick", "stopped")
                  ELSE IF sprite.currentFrame + 1 < NumFrames
                  THEN /\ animatedSpriteChip' =
                            [c EXCEPT !.animatedSprite[1].currentFrame =
                                         sprite.currentFrame + 1]
                       /\ UNCHANGED container
                       /\ outcome' = NoOutcome
                       /\ lastOp' = Handled("spriteTick", "advanced")
                  ELSE IF sprite.loop
                  THEN /\ animatedSpriteChip' =
                            [c EXCEPT !.animatedSprite[1].currentFrame = 0]
                       /\ UNCHANGED container
                       /\ outcome' = NoOutcome
                       /\ lastOp' = Handled("spriteTick", "looped")
                  ELSE IF ~ sprite.onComplete
                  THEN /\ animatedSpriteChip' =
                            [c EXCEPT !.animatedSprite[1].playing = FALSE,
                                      !.animatedSprite[1].currentFrame = NumFrames - 1]
                       /\ UNCHANGED container
                       /\ outcome' = NoOutcome
                       /\ lastOp' = Handled("spriteTick", "completed")
                  ELSE /\ animatedSpriteChip' = spriteTerminated(c)
                       /\ container' = containerAfterTerminate(c)
                       /\ outcome' = NoOutcome
                       /\ lastOp' = Handled("spriteTick", "terminateSelf")
  /\ emitted' = <<>>
  /\ observed' = <<>>
  /\ UNCHANGED <<scrollVars, renderSize, displayObjectChip, loader>>

\* AnimatedSpriteChip._onPause
SpritePause ==
  /\ animatedSpriteChip.chipState = "active"
  /\ LET c == [animatedSpriteChip EXCEPT !.assigned = <<>>, !.onResizeArgs = <<>>]
     IN  IF c.animatedSprite = <<>>
         THEN /\ animatedSpriteChip' = [c EXCEPT !.chipState = "paused"]
              /\ outcome' = Outcome(FALSE, FALSE, "TypeError")
              /\ lastOp' = Handled("spritePause", "error")
         ELSE /\ animatedSpriteChip' =
                   [c EXCEPT !.wasPlaying = c.animatedSprite[1].playing,
                             !.animatedSprite[1].playing = FALSE,
                             !.chipState = "paused"]
              /\ outcome' = NoOutcome
              /\ lastOp' = Handled("spritePause", "paused")
  /\ emitted' = <<>>
  /\ observed' = <<>>
  /\ UNCHANGED <<scrollVars, renderSize, container, displayObjectChip, loader>>

\* _onResume that plays the sprite whatever it did before the pause
SpriteResume_alwaysPlays ==
  /\ animatedSpriteChip.chipState = "paused"
  /\ LET c == [animatedSpriteChip EXCEPT !.assigned = <<>>, !.onResizeArgs = <<>>,
                                         !.chipState = "active"]
     IN  IF FALSE
         THEN /\ animatedSpriteChip' = c
              /\ outcome' = NoOutcome
              /\ lastOp' = Handled("spriteResume", "stopped")
         ELSE IF c.animatedSprite = <<>>
         THEN /\ animatedSpriteChip' = c
              /\ outcome' = Outcome(FALSE, FALSE, "TypeError")
              /\ lastOp' = Handled("spriteResume", "error")
         ELSE /\ animatedSpriteChip' = [c EXCEPT !.animatedSprite[1].playing = TRUE]
              /\ outcome' = NoOutcome
              /\ lastOp' = Handled("spriteResume", "playing")
  /\ emitted' = <<>>
  /\ observed' = <<>>
  /\ UNCHANGED <<scrollVars, renderSize, container, displayObjectChip, loader>>

\* AnimatedSpriteChip._onResume
SpriteResume ==
  /\ animatedSpriteChip.chipState = "paused"
  /\ LET c == [animatedSpriteChip EXCEPT !.assigned = <<>>, !.onResizeArgs = <<>>,
                                         !.chipState = "active"]
     IN  IF ~ c.wasPlaying
         THEN /\ animatedSpriteChip' = c
              /\ outcome' = NoOutcome
              /\ lastOp' = Handled("spriteResume", "stopped")
         ELSE IF c.animatedSprite = <<>>
         THEN /\ animatedSpriteChip' = c
              /\ outcome' = Outcome(FALSE, FALSE, "TypeError")
              /\ lastOp' = Handled("spriteResume", "error")
         ELSE /\ animatedSpriteChip' = [c EXCEPT !.animatedSprite[1].playing = TRUE]
              /\ outcome' = NoOutcome
              /\ lastOp' = Handled("spriteResume", "playing")
  /\ emitted' = <<>>
  /\ observed' = <<>>
  /\ UNCHANGED <<scrollVars, renderSize, container, displayObjectChip, loader>>

\* the owner terminates the chip: AnimatedSpriteChip._onTerminate
SpriteTerminate ==
  /\ animatedSpriteChip.chipState \in {"active", "paused"}
  /\ animatedSpriteChip' = spriteTerminated(animatedSpriteChip)
  /\ container' = containerAfterTerminate(animatedSpriteChip)
  /\ lastOp' = Op("spriteTerminate", NoArg)
  /\ emitted' = <<>>
  /\ observed' = <<>>
  /\ outcome' = NoOutcome
  /\ UNCHANGED <<scrollVars, renderSize, displayObjectChip, loader>>

\* AnimatedSpriteChip._onResize, for a chip that is subscribed
spriteOnResize(c, rs) ==
  IF c.subscribed /\ c.animatedSprite # <<>>
  THEN [c EXCEPT !.animatedSprite[1].properties =
                    updateOnResize(c.propertiesToUpdateOnResize,
                                   c.animatedSprite[1].properties, rs),
                 !.assigned = c.propertiesToUpdateOnResize,
                 !.onResizeArgs = <<>>]
  ELSE [c EXCEPT !.assigned = <<>>, !.onResizeArgs = <<>>]

\* the window is resized to rs: PixiAppChip._onResize emits "resize", which
\* runs _onResize of every subscribed chip
Resize(rs) ==
  /\ renderSize' = rs
  /\ displayObjectChip' = displayOnResize(displayObjectChip, rs)
  /\ animatedSpriteChip' = spriteOnResize(animatedSpriteChip, rs)
  /\ lastOp' = Op("resize", NoArg)
  /\ emitted' = <<Resized>>
  /\ observed' = <<>>
  /\ outcome' = NoOutcome
  /\ UNCHANGED <<scrollVars, container, loader>>

(* ---------------------------- Loader: handlers ------------------------ *)

\* the notification of Loader._onProgress
Progressed == [name |-> "progress", reason |-> "none"]

\* the end of _startLoading for flow i: when bundlesToBackgroundLoad is
\* given, loadBundle(this._options.bundlesToLoad) without await; then
\* _terminateSelf(), which ends an active chip
completed(l, i) ==
  [l EXCEPT !.flows[i].at = "done",
            !.flows[i].requests = l.flows[i].requests + 1,
            !.backgroundLoads =
               IF l.options.bundlesToBackgroundLoad # "undefined"
               THEN l.backgroundLoads \cup {l.options.bundlesToLoad}
               ELSE l.backgroundLoads,
            !.chipState = "inactive"]

\* Loader._onActivate: _startLoading() runs up to its first await
LoaderActivate ==
  /\ loader.chipState = "inactive"
  /\ Len(loader.flows) < MaxStarts
  /\ LET i == Len(loader.flows) + 1
         o == loader.options
         started(at) == [loader EXCEPT !.flows = Append(loader.flows, Flow(at)),
                                       !.chipState = "active"]
     IN  IF o.initOptions
         THEN loader' = started("init") /\ lastOp' = Handled("loaderActivate", "init")
         ELSE IF o.bundlesToLoad # "undefined"
         THEN loader' = started("load") /\ lastOp' = Handled("loaderActivate", "load")
         ELSE /\ loader' = completed(started("end"), i)
              /\ lastOp' = Handled("loaderActivate", "completed")
  /\ emitted' = <<>>
  /\ observed' = <<>>
  /\ outcome' = NoOutcome
  /\ UNCHANGED <<scrollVars, renderSize, container, displayObjectChip,
                 animatedSpriteChip>>

\* _startLoading that does not await loadBundle
InitDone_loadNotAwaited(i) ==
  /\ i \in 1..Len(loader.flows)
  /\ loader.flows[i].at = "init"
  /\ LET l == [loader EXCEPT !.flows[i].initDone = TRUE]
     IN  IF l.options.bundlesToLoad # "undefined"
         THEN /\ loader' = completed(l, i)
              /\ lastOp' = Handled("initDone", "load")
         ELSE /\ loader' = completed(l, i)
              /\ lastOp' = Handled("initDone", "completed")
  /\ emitted' = <<>>
  /\ observed' = <<>>
  /\ outcome' = NoOutcome
  /\ UNCHANGED <<scrollVars, renderSize, container, displayObjectChip,
                 animatedSpriteChip>>

\* the promise of PIXI.Assets.init awaited by flow i resolves
InitDone(i) ==
  /\ i \in 1..Len(loader.flows)
  /\ loader.flows[i].at = "init"
  /\ LET l == [loader EXCEPT !.flows[i].initDone = TRUE]
     IN  IF l.options.bundlesToLoad # "undefined"
         THEN /\ loader' = [l EXCEPT !.flows[i].at = "load"]
              /\ lastOp' = Handled("initDone", "load")
         ELSE /\ loader' = completed(l, i)
              /\ lastOp' = Handled("initDone", "completed")
  /\ emitted' = <<>>
  /\ observed' = <<>>
  /\ outcome' = NoOutcome
  /\ UNCHANGED <<scrollVars, renderSize, container, displayObjectChip,
                 animatedSpriteChip>>

\* PIXI.Assets.loadBundle calls the progress callback of flow i:
\* Loader._onProgress
Progress(i) ==
  /\ i \in 1..Len(loader.flows)
  /\ loader.flows[i].at = "load"
  /\ loader' = [loader EXCEPT !.flows[i].progressAt =
                                 loader.flows[i].progressAt \cup {loader.flows[i].at}]
  /\ lastOp' = Op("progress", NoArg)
  /\ emitted' = <<Progressed>>
  /\ observed' = <<>>
  /\ outcome' = NoOutcome
  /\ UNCHANGED <<scrollVars, renderSize, container, displayObjectChip,
                 animatedSpriteChip>>

\* the promise of PIXI.Assets.loadBundle awaited by flow i resolves
LoadDone(i) ==
  /\ i \in 1..Len(loader.flows)
  /\ loader.flows[i].at = "load"
  /\ loader' = completed([loader EXCEPT !.flows[i].loadDone = TRUE], i)
  /\ lastOp' = Handled("loadDone", "completed")
  /\ emitted' = <<>>
  /\ observed' = <<>>
  /\ outcome' = NoOutcome
  /\ UNCHANGED <<scrollVars, renderSize, container, displayObjectChip,
                 animatedSpriteChip>>

\* the owner terminates the Loader, which has no _onTerminate
LoaderTerminate ==
  /\ loader.chipState = "active"
  /\ loader' = [loader EXCEPT !.chipState = "inactive"]
  /\ lastOp' = Op("loaderTerminate", NoArg)
  /\ emitted' = <<>>
  /\ observed' = <<>>
  /\ outcome' = NoOutcome
  /\ UNCHANGED <<scrollVars, renderSize, container, displayObjectChip,
                 animatedSpriteChip>>

(* --------------------- specifications of the chips --------------------- *)

\* a Scrollbox that is constructed and left alone
ScrollboxIdle ==
  /\ ScrollboxConstructed
  /\ options = DefaultOptions
  /\ size = [w |-> DefaultOptions.boxWidth, h |-> DefaultOptions.boxHeight]

RenderSizes == 1..MaxRenderSize

InitDisplay ==
  /\ ScrollboxIdle
  /\ PixiAppChipActive
  /\ displayObjectChip \in {NewDisplayObjectChip(o) : o \in DisplayObjectChipOptions}
  /\ animatedSpriteChip = IdleAnimatedSpriteChip
  /\ loader = IdleLoader

NextDisplay ==
  \/ DisplayActivate
  \/ DisplayTerminate
  \/ HostAddChild
  \/ HostRemoveChild
  \/ \E rs \in RenderSizes : Resize(rs)

SpecDisplay == InitDisplay /\ [][NextDisplay]_vars

InitSprite ==
  /\ ScrollboxIdle
  /\ PixiAppChipActive
  /\ displayObjectChip = IdleDisplayObjectChip
  /\ animatedSpriteChip \in {NewAnimatedSpriteChip(sheet, o) :
                               sheet \in Spritesheets, o \in AnimatedSpriteChipOptions}
  /\ loader = IdleLoader

NextSprite ==
  \/ SpriteActivate
  \/ PrepareUploaded
  \/ SpriteTick
  \/ SpritePause
  \/ SpriteResume
  \/ SpriteTerminate
  \/ \E rs \in RenderSizes : Resize(rs)

SpecSprite == InitSprite /\ [][NextSprite]_vars

\* both chips under a PixiAppChip whose window is resized
InitResize ==
  /\ ScrollboxIdle
  /\ PixiAppChipActive
  /\ displayObjectChip \in {NewDisplayObjectChip(o) :
                              o \in {d \in DisplayObjectChipOptions : d.addToContainer}}
  /\ animatedSpriteChip \in
       {NewAnimatedSpriteChip([animations |-> {"idle"}, linkedSheets |-> 0,
                               imagesFound |-> TRUE],
                              [DefaultAnimatedSpriteChipOptions
                                 EXCEPT !.properties = properties, !.onResize = r]) :
          properties \in SpriteProperties, r \in BOOLEAN}
  /\ loader = IdleLoader

NextResize ==
  \/ DisplayActivate
  \/ DisplayTerminate
  \/ SpriteActivate
  \/ SpriteTerminate
  \/ \E rs \in RenderSizes : Resize(rs)

SpecResize == InitResize /\ [][NextResize]_vars

InitLoader ==
  /\ ScrollboxIdle
  /\ PixiAppChipActive
  /\ displayObjectChip = IdleDisplayObjectChip
  /\ animatedSpriteChip = IdleAnimatedSpriteChip
  /\ loader \in {NewLoader(o) : o \in LoaderOptions}

NextLoader ==
  \/ LoaderActivate
  \/ LoaderTerminate
  \/ \E i \in 1..MaxStarts : InitDone(i)
  \/ \E i \in 1..MaxStarts : Progress(i)
  \/ \E i \in 1..MaxStarts : LoadDone(i)

SpecLoader == InitLoader /\ [][NextLoader]_vars

(* ------------------- the active axis, as the claims use it ------------- *)

Horizontal == options.direction = "horizontal"

\* box size, content size and content position along the configured axis
boxSize == IF Horizontal THEN options.boxWidth ELSE options.boxHeight

contentSize == IF Horizontal THEN size.w ELSE size.h

contentPosition == IF Horizontal THEN content.x ELSE content.y

handleLength == IF Horizontal THEN scrollbar.handleWidth ELSE scrollbar.handleHeight

handleOffset == IF Horizontal THEN scrollbar.handleX ELSE scrollbar.handleY

backgroundLength ==
  IF Horizontal THEN scrollbar.backgroundWidth ELSE scrollbar.backgroundHeight

\* the position lies in [boxSize - contentSize, 0], and is 0 when the content
\* is not larger than the box
PositionInRange ==
  IF contentSize <= boxSize
  THEN contentPosition = Zero
  ELSE /\ Leq(Num(boxSize - contentSize), contentPosition)
       /\ Leq(contentPosition, Zero)

\* the value of v brought into [box - sz, 0], 0 when the content fits
Clamped(v, box, sz) ==
  IF sz <= box \/ Leq(Zero, v) THEN Zero
  ELSE IF Leq(v, Num(box - sz)) THEN Num(box - sz)
  ELSE v

\* steps of the pointer and wheel handlers
PointerOrWheel == {"scrollbarDown", "dragDown", "onMove", "onUp", "wheel"}

(* ------------------------------- claims -------------------------------- *)

\* C1: after every scrollTo and scrollBy call the content position along the
\* scroll axis is within [boxSize - contentSize, 0], and is exactly 0 when
\* contentSize <= boxSize, however large the argument.
C1_ScrollClamped ==
  lastOp.name \in {"scrollTo", "scrollBy"} => PositionInRange

\* a scrollTo far beyond the end of the content was clamped to the end
C1_Witness ==
  /\ lastOp.name = "scrollTo"
  /\ contentSize > boxSize
  /\ Leq(lastOp.arg.x, Num(boxSize - contentSize - 1))
  /\ Horizontal
  /\ contentPosition = Num(boxSize - contentSize)

\* C2: while a gesture is active, a pointer-down on the content or on the
\* handle leaves the pointer state (kind and last point) unchanged, and at
\* most one gesture is recorded.
C2_GestureExclusive ==
  [][ /\ Len(pointerDown') <= 1
      /\ (pointerDown # <<>> /\ lastOp'.name \in {"scrollbarDown", "dragDown"})
           => pointerDown' = pointerDown ]_vars

\* a pointer-down on the content arrived during a scrollbar gesture, and a
\* pointer-down on the handle can arrive during a drag gesture
C2_Witness ==
  /\ lastOp.name = "dragDown"
  /\ pointerDown # <<>>
  /\ pointerDown[1].type = "scrollbar"

\* C3: after refresh() the content position is back inside
\* [boxSize - contentSize, 0], and is 0 whenever contentSize <= boxSize.
C3_RefreshReclamps ==
  lastOp.name = "refresh" => PositionInRange

\* C4: after every refresh() and scrollTo() the scrollbar indicator is
\* invisible if overflow is hidden, invisible if overflow is auto and the
\* content fits within the box, and visible otherwise.
C4_IndicatorVisibility ==
  lastOp.name \in {"refresh", "scrollTo"} =>
    scrollbarVisible =
      ~ (\/ options.overflow = "hidden"
         \/ (options.overflow = "auto" /\ contentSize <= boxSize))

\* C5: after every refresh() and scrollTo() the handle length along the
\* active axis is boxSize * clamp(boxSize / contentSize, 0, 1) and the
\* background length is boxSize.
C5_HandleLength ==
  lastOp.name \in {"refresh", "scrollTo"} =>
    /\ handleLength =
         Mul(Num(boxSize), clamp(Div(Num(boxSize), Num(contentSize)), Zero, Num(1)))
    /\ backgroundLength = Num(boxSize)

\* C6: after every scrollTo(), scrollBy() and refresh(), and after every
\* pointer handler, the handle offset along the active axis is
\* -contentPosition * ratio, with the ratio as last computed.
C6_HandleMirrorsContent ==
  status = "active" =>
    /\ ~ IsNaN(handleOffset)
    /\ handleOffset = Mul(Neg(contentPosition), scrollbar.ratio)

\* C7: when contentSize is 0 the recomputed ratio is 1 and ratio, handle
\* length and handle offset are finite numbers.
C7_ZeroContentGuarded ==
  (/\ lastOp.name \in {"activate", "refresh", "scrollTo", "scrollBy"}
   /\ contentSize = 0) =>
    /\ scrollbar.ratio = Num(1)
    /\ IsFinite(handleLength)
    /\ IsFinite(handleOffset)

\* C8: a scrollTo(p) that directly follows a scrollTo(p) with the same raw p
\* leaves content position and scrollbar geometry as they are, and every
\* scrollTo call emits one moved notification.
C8_ScrollToIdempotent ==
  [][ lastOp'.name = "scrollTo" =>
        /\ Len(emitted') = 1
        /\ emitted'[1].name = "moved"
        /\ lastOp'.repeated =>
             /\ lastOp.name = "scrollTo"
             /\ content' = content
             /\ scrollbar' = scrollbar ]_vars

\* scrollTo was called twice in a row with a position beyond the end
C8_Witness ==
  /\ lastOp.name = "scrollTo"
  /\ lastOp.repeated
  /\ Leq(lastOp.arg.x, Num(options.boxWidth - size.w - 1))
  /\ content.x = Num(options.boxWidth - size.w)
  /\ Len(emitted) = 1

\* C9: every scrollTo and scrollBy call emits exactly one moved notification
\* carrying the reason passed by the caller, "user" when none is passed, and
\* scrollBy(delta, reason) does what scrollTo(content.position + delta,
\* reason) does.
C9_MovedReason ==
  [][ lastOp'.name \in {"scrollTo", "scrollBy"} =>
        /\ emitted' = <<[name |-> "moved",
                         reason |-> IF lastOp'.reason = "undefined"
                                    THEN "user" ELSE lastOp'.reason]>>
        /\ lastOp'.name = "scrollBy" =>
             scrollTo(add(Point(content.x, content.y), lastOp'.arg),
                      lastOp'.reason) ]_vars

\* a scrollBy with a reason of the caller moved the content
C9_Witness ==
  /\ lastOp.name = "scrollBy"
  /\ emitted = <<Moved("programmatic")>>
  /\ content.x # Zero

\* C10: in the dragging state a pointer-move whose displacement from the last
\* point along the active axis is <= dragThreshold is ignored whatever its
\* displacement on the other axis: content position, pointer state and last
\* point are unchanged and no moved notification is emitted.
C10_SubThresholdIgnored ==
  [][ \A g \in GlobalPoints :
        (/\ pointerDown # <<>>
         /\ pointerDown[1].type = "drag"
         /\ OnMove(g)
         /\ LET local == containerToLocal(g)
                last == pointerDown[1].last
                d == IF Horizontal THEN Minus(local.x, last.x)
                                   ELSE Minus(local.y, last.y)
            IN  /\ Leq(d, Num(options.dragThreshold))
                /\ Leq(Neg(d), Num(options.dragThreshold)))
        => /\ content' = content
           /\ pointerDown' = pointerDown
           /\ emitted' = <<>> ]_vars

\* C11: in the dragging state a pointer-move whose displacement from the last
\* recorded point exceeds dragThreshold scrolls the content by that
\* displacement (current - last, clamped) and records the current point as
\* the last one; an ignored move leaves the last point as it is, so
\* successive small moves add up against the last accepted point.
C11_DragScrollsByDisplacement ==
  [][ (lastOp'.name = "onMove" /\ lastOp'.reason = "drag") =>
        \A g \in GlobalPoints : OnMove(g) =>
          LET current == subtract(g, ContainerOrigin)
              last == pointerDown[1].last
              dx == Minus(current.x, last.x)
              dy == Minus(current.y, last.y)
              t == Num(options.dragThreshold)
          IN  IF Leq(Plus(Mul(dx, dx), Mul(dy, dy)), Mul(t, t))
              THEN pointerDown' = pointerDown /\ emitted' = <<>>
              ELSE /\ content'.x = Clamped(Plus(content.x, dx),
                                           options.boxWidth, size.w)
                   /\ content'.y = Clamped(Plus(content.y, dy),
                                           options.boxHeight, size.h)
                   /\ pointerDown'[1].last = current
                   /\ pointerDown'[1].type = "drag"
                   /\ emitted' = <<Moved("user")>> ]_vars

\* a drag move beyond the threshold scrolled the content to the left
C11_Witness ==
  /\ lastOp.name = "onMove"
  /\ lastOp.reason = "drag"
  /\ emitted = <<Moved("user")>>
  /\ content.x = Num(-1)
  /\ pointerDown # <<>>

\* C12: pointer and wheel events change the content position only along the
\* active axis: in a horizontal scrollbox content.y stays the same, in a
\* vertical one content.x, also when the content overflows on the other axis.
C12_ActiveAxisOnly ==
  [][ lastOp'.name \in PointerOrWheel =>
        IF Horizontal THEN content'.y = content.y
                      ELSE content'.x = content.x ]_vars

\* C13: a pointer-down on the content while idle (dragScroll enabled) starts
\* the dragging state and records the local pointer coordinate, and a
\* pointer-down on the handle while idle starts the scrollbar-dragging state
\* the same way; neither changes the content position or the scrollbar
\* geometry, and neither emits moved.
C13_DownStartsGesture ==
  [][ (pointerDown = <<>> /\ lastOp'.name \in {"dragDown", "scrollbarDown"}) =>
        /\ content'.x = content.x
        /\ content'.y = content.y
        /\ scrollbar' = scrollbar
        /\ emitted' = <<>>
        /\ \A g \in GlobalPoints :
             /\ (lastOp'.name = "dragDown" /\ DragDown(g)) =>
                   /\ pointerDown'[1].type = "drag"
                   /\ pointerDown'[1].last = subtract(g, ContainerOrigin)
             /\ (lastOp'.name = "scrollbarDown" /\ ScrollbarDown(g)) =>
                   /\ pointerDown'[1].type = "scrollbar"
                   /\ pointerDown'[1].last =
                        Point(Minus(g.x, ContainerOrigin.x),
                              Minus(Minus(g.y, ContainerOrigin.y),
                                    Num(options.boxHeight))) ]_vars

\* a pointer-down on scrolled content started a drag and left it in place
C13_Witness ==
  /\ lastOp.name = "dragDown"
  /\ pointerDown # <<>>
  /\ pointerDown[1].type = "drag"
  /\ pointerDown[1].last = Point(Zero, Num(1))
  /\ content.x = Num(-1)
  /\ emitted = <<>>

\* C14: from dragging or scrollbar-dragging, pointer-up, pointer-cancel and
\* pointer-up-outside each return to idle (no pointer state) with the
\* children of the content interactive again and the content position
\* unchanged; a pointer-down that follows starts a new gesture.
C14_UpEndsGesture ==
  [][ /\ \A kind \in PointerUpEvents :
           (pointerDown # <<>> /\ lastOp'.name = "onUp" /\ OnUp(kind)) =>
             /\ pointerDown' = <<>>
             /\ content'.interactiveChildren
             /\ content'.x = content.x
             /\ content'.y = content.y
      /\ (/\ lastOp.name = "onUp"
          /\ lastOp.reason \in {"drag", "scrollbar"}
          /\ lastOp'.name \in {"dragDown", "scrollbarDown"})
         => pointerDown' # <<>> ]_vars

\* a drag that had scrolled the content was ended by an up event
C14_Witness ==
  /\ lastOp.name = "onUp"
  /\ lastOp.reason = "drag"
  /\ pointerDown = <<>>
  /\ content.interactiveChildren
  /\ content.x = Num(-1)

\* C15: pointer-move and the three up events while idle do nothing: pointer
\* state, content position, scrollbar geometry and children interactivity are
\* unchanged, nothing is thrown and no notification is emitted.
C15_IdleMoveUpSilent ==
  [][ (pointerDown = <<>> /\ lastOp'.name \in {"onMove", "onUp"}) =>
        /\ pointerDown' = <<>>
        /\ content' = content
        /\ scrollbar' = scrollbar
        /\ scrollbarVisible' = scrollbarVisible
        /\ outcome'.raised = "none"
        /\ emitted' = <<>> ]_vars

\* a pointer-move arrived while no gesture was active on scrolled content
C15_Witness ==
  /\ lastOp.name = "onMove"
  /\ lastOp.reason = "idle"
  /\ status = "active"
  /\ pointerDown = <<>>
  /\ content.x = Num(-1)

\* C16: in the scrollbar-dragging state a pointer-move whose displacement
\* from the last recorded point along the active axis, in the space of the
\* scrollbar anchor, is d scrolls the content by -d / ratio along that axis,
\* ratio being the current box size over content size, subject to clamping,
\* and records the current point as the last one.
C16_ScrollbarMoveScrolls ==
  [][ (lastOp'.name = "onMove" /\ lastOp'.reason = "scrollbar") =>
        \A g \in GlobalPoints : OnMove(g) =>
          LET current == Point(Minus(g.x, ContainerOrigin.x),
                               Minus(Minus(g.y, ContainerOrigin.y),
                                     Num(options.boxHeight)))
              last == pointerDown[1].last
              d == IF Horizontal THEN Minus(current.x, last.x)
                                 ELSE Minus(current.y, last.y)
              ratio == Div(Num(boxSize), Num(contentSize))
          IN  /\ contentPosition' =
                   Clamped(Minus(contentPosition, Div(d, ratio)),
                           boxSize, contentSize)
              /\ pointerDown'[1].last = current ]_vars

\* C17: with wheelScroll enabled, a wheel event whose pointer position hits
\* the visible viewport scrolls the content by -deltaY along the active axis,
\* clamped, emits moved and suppresses the default action of the browser.
C17_WheelScrolls ==
  [][ (/\ lastOp'.name = "wheel"
       /\ lastOp'.reason = "hit"
       /\ status = "active"
       /\ options.wheelScroll) =>
        /\ contentPosition' =
             Clamped(Minus(contentPosition, lastOp'.arg.y), boxSize, contentSize)
        /\ Len(emitted') = 1
        /\ emitted'[1].name = "moved"
        /\ outcome'.prevented ]_vars

\* C18: a wheel event while the pointer is outside the viewport, or while
\* the viewport container is not visible, changes no state of the scrollbox,
\* emits no notification and does not suppress the default action.
C18_WheelOutsideIgnored ==
  [][ (lastOp'.name = "wheel" /\ lastOp'.reason \in {"invisible", "miss"}) =>
        /\ UNCHANGED <<options, status, size, content, pointerDown, scrollbar,
                       scrollbarVisible, wheelListeners>>
        /\ emitted' = <<>>
        /\ ~ outcome'.prevented ]_vars

\* the hit test found the pointer outside the viewport of scrolled content
C18_Witness ==
  /\ lastOp.name = "wheel"
  /\ lastOp.reason = "miss"
  /\ "app" \in chipContext
  /\ outcome = NoOutcome
  /\ status = "active"
  /\ content.x = Num(-1)

\* C19: with stopPropagation set, every pointer event consumed by a drag
\* handler (pointer-down on the content, drag move) or by a scrollbar handler
\* (pointer-down on the handle, scrollbar move) has its propagation stopped;
\* with stopPropagation unset none has.
C19_PropagationStopped ==
  [][ (\/ (lastOp'.name \in {"dragDown", "scrollbarDown"}
           /\ lastOp'.reason = "accepted")
       \/ (lastOp'.name = "onMove" /\ lastOp'.reason = "scrollbar")
       \/ (lastOp'.name = "onMove" /\ lastOp'.reason = "drag"
           /\ emitted' # <<>>)) =>
        outcome'.stopped = options.stopPropagation ]_vars

\* C20: with wheelScroll enabled the wheel listener registered at activation
\* is no longer registered after terminate(): one listener while active,
\* none left behind otherwise, so no wheel event reaches the handler of a
\* terminated scrollbox.
C20_WheelListenerRemoved ==
  /\ wheelListeners = IF status = "active" /\ options.wheelScroll THEN 1 ELSE 0
  /\ lastOp.name = "wheel" => status = "active"

\* C21: the configured direction selects the active axis: the ratio is the
\* box size over the content size along that axis (boxHeight and the content
\* height for vertical, boxWidth and the content width for horizontal), and
\* the handle length and offset along that axis are boxSize * ratio and
\* -contentPosition * ratio.
C21_DirectionSelectsAxis ==
  lastOp.name \in {"activate", "refresh", "scrollTo", "scrollBy"} =>
    /\ scrollbar.ratio = Div(Num(boxSize), Num(contentSize))
    /\ handleLength = Mul(Num(boxSize), scrollbar.ratio)
    /\ handleOffset = Mul(Neg(contentPosition), scrollbar.ratio)

\* C22: a pointer-move or pointer-up/cancel/up-outside dispatched while the
\* gesture record is not null and its tag is neither scrollbar nor drag
\* raises the error "no such type" and changes neither the content position
\* nor the gesture record.
C22_UnknownTagRaises ==
  [][ (/\ pointerDown # <<>>
       /\ pointerDown[1].type \notin {"scrollbar", "drag"}
       /\ lastOp'.name \in {"onMove", "onUp"}) =>
        /\ outcome'.raised = "no such type"
        /\ content' = content
        /\ pointerDown' = pointerDown
        /\ emitted' = <<>> ]_vars

\* an up event was dispatched on a gesture record of unknown tag over
\* scrolled content
C22_Witness ==
  /\ lastOp.name = "onUp"
  /\ pointerDown # <<>>
  /\ pointerDown[1].type = "pinch"
  /\ outcome.raised = "no such type"
  /\ content.x = Num(-1)

\* C23: activating an AnimatedSpriteChip whose animationName is not an
\* animation of the spritesheet raises an error that names the missing
\* animation, with no sprite created, nothing added to the container and no
\* subscription to resize.
C23_MissingAnimationRaises ==
  [][ (/\ lastOp'.name = "spriteActivate"
       /\ animatedSpriteChip.options.animationName # "undefined"
       /\ animatedSpriteChip.options.animationName
            \notin animatedSpriteChip.spritesheet.animations) =>
        /\ outcome'.raised = CantFindAnimation(animatedSpriteChip.options.animationName)
        /\ animatedSpriteChip'.animatedSprite = <<>>
        /\ animatedSpriteChip'.created = animatedSpriteChip.created
        /\ container' = container
        /\ ~ animatedSpriteChip'.subscribed ]_vars

\* the activation of a chip for the animation "jump", which the spritesheet
\* does not have, has raised
C23_Witness ==
  /\ lastOp.name = "spriteActivate"
  /\ animatedSpriteChip.options.animationName = "jump"
  /\ "jump" \notin animatedSpriteChip.spritesheet.animations
  /\ outcome.raised = "Can't find animation \"jump\" in spritesheet"
  /\ animatedSpriteChip.animatedSprite = <<>>

C27_WitnessKeepLastFrame ==
  /\ lastOp.name = "spriteTick"
  /\ lastOp.reason = "completed"
  /\ animatedSpriteChip.options.behaviorOnComplete = "keepLastFrame"
  /\ animatedSpriteChip.chipState = "active"

\* how often a step assigned the property
Assignments(assigned, property) ==
  Cardinality({i \in 1..Len(assigned) : assigned[i] = property})

\* the value of the property after value was assigned to it
Assigned(property, value) == updateProperty(NewDisplayObject, property, value)[property]

\* the activation wrote every configured property once, a function-valued one
\* with the result of the function for the render size rs
ResolvedAtActivation(properties, assigned, after, rs) ==
  \A property \in PropertyNames :
    /\ Assignments(assigned, property) =
         IF properties[property] = "absent" THEN 0 ELSE 1
    /\ properties[property] = "function" =>
         after[property] = Assigned(property, valueFunction(property, rs))
    /\ properties[property] = "value" =>
         after[property] = Assigned(property, PlainValue)

\* the resize wrote every function-valued property once, with the result of
\* the function for the new render size rs, and no other property
ResolvedOnResize(properties, assigned, before, after, rs) ==
  \A property \in PropertyNames :
    /\ Assignments(assigned, property) =
         IF properties[property] = "function" THEN 1 ELSE 0
    /\ properties[property] = "function" =>
         after[property] = Assigned(property, valueFunction(property, rs))
    /\ properties[property] # "function" => after[property] = before[property]

\* C25: in a DisplayObjectChip and in an AnimatedSpriteChip every
\* function-valued property is evaluated once at activation and once more on
\* each resize while the chip is active, and the result is assigned each
\* time; a property given as a value is assigned once at activation and is
\* not assigned again on resize.
C25_PropertiesResolved ==
  [][ /\ lastOp'.name = "displayActivate" =>
           ResolvedAtActivation(displayObjectChip.options.properties,
                                displayObjectChip'.assigned,
                                displayObjectChip'.displayObject, renderSize)
      /\ lastOp'.name = "resize" /\ displayObjectChip.chipState = "active" =>
           ResolvedOnResize(displayObjectChip.options.properties,
                            displayObjectChip'.assigned,
                            displayObjectChip.displayObject,
                            displayObjectChip'.displayObject, renderSize')
      /\ lastOp'.name = "spriteActivate" /\ lastOp'.reason = "activated" =>
           ResolvedAtActivation(animatedSpriteChip.options.properties,
                                animatedSpriteChip'.assigned,
                                animatedSpriteChip'.animatedSprite[1].properties,
                                renderSize)
      /\ lastOp'.name = "resize" /\ animatedSpriteChip.chipState = "active" =>
           ResolvedOnResize(animatedSpriteChip.options.properties,
                            animatedSpriteChip'.assigned,
                            animatedSpriteChip.animatedSprite[1].properties,
                            animatedSpriteChip'.animatedSprite[1].properties,
                            renderSize') ]_vars

\* a resize to another render size has run on a re-activated
\* DisplayObjectChip and on an AnimatedSpriteChip, both with position given
\* as a function and alpha as a value
C25_Witness ==
  /\ lastOp.name = "resize"
  /\ renderSize = MaxRenderSize
  /\ displayObjectChip.chipState = "active"
  /\ displayObjectChip.options.properties =
       [position |-> "function", alpha |-> "value"]
  /\ displayObjectChip.assigned = <<"position">>
  /\ displayObjectChip.displayObject.position = point(MaxRenderSize, 0)
  /\ displayObjectChip.displayObject.alpha = PlainValue
  /\ animatedSpriteChip.chipState = "active"
  /\ animatedSpriteChip.created = 2
  /\ animatedSpriteChip.assigned = <<"position">>
  /\ animatedSpriteChip.animatedSprite[1].properties.position = point(MaxRenderSize, 0)

\* C26: options.onResize is called on each resize while the chip is active,
\* with the display object, the PixiAppChip and the current render size.
C26_OnResizeEachResize ==
  [][ lastOp'.name = "resize" =>
        /\ (displayObjectChip.chipState = "active"
              /\ displayObjectChip.options.onResize) =>
             displayObjectChip'.onResizeArgs =
               <<CallbackArgs(displayObjectChip'.displayObject, renderSize')>>
        /\ (animatedSpriteChip.chipState = "active"
              /\ animatedSpriteChip.options.onResize) =>
             animatedSpriteChip'.onResizeArgs =
               <<CallbackArgs(animatedSpriteChip'.animatedSprite[1].properties,
                              renderSize')>> ]_vars

\* C24: with addToContainer true, the default, the display object of a
\* DisplayObjectChip is a child of the container exactly while the chip is
\* active; with addToContainer false no step of the chip adds it or removes
\* it.
C24_ChildWhileActive ==
  [][ /\ DefaultDisplayObjectChipOptions.addToContainer
      /\ displayObjectChip.options.addToContainer =>
           /\ TheDisplayObject \in container <=>
                displayObjectChip.chipState = "active"
           /\ TheDisplayObject \in container' <=>
                displayObjectChip'.chipState = "active"
      /\ (/\ ~ displayObjectChip.options.addToContainer
          /\ lastOp'.name \in {"displayActivate", "displayTerminate", "resize"}) =>
            container' = container ]_vars

\* a DisplayObjectChip that adds its display object has been activated and
\* terminated, and the display object is no longer a child
C24_Witness ==
  /\ lastOp.name = "displayTerminate"
  /\ displayObjectChip.options.addToContainer
  /\ displayObjectChip.chipState = "inactive"
  /\ TheDisplayObject \notin container

\* a DisplayObjectChip that does not add its display object is active and the
\* display object, added by its owner, has stayed a child since
C24_WitnessOwnerAdds ==
  /\ lastOp.name = "displayActivate"
  /\ ~ displayObjectChip.options.addToContainer
  /\ TheDisplayObject \in container

\* a run of _startLoading has called _terminateSelf once when it is done and
\* not before, after the init it had to await and then the load it had to
\* await, and progress was emitted for it only while it awaited the load
FlowInOrder(o, flow) ==
  /\ flow.requests = IF flow.at = "done" THEN 1 ELSE 0
  /\ flow.at = "done" =>
       /\ o.initOptions => flow.initDone
       /\ o.bundlesToLoad # "undefined" => flow.loadDone
  /\ flow.at = "load" \/ flow.loadDone =>
       /\ o.bundlesToLoad # "undefined"
       /\ o.initOptions => flow.initDone
  /\ flow.initDone => o.initOptions
  /\ flow.progressAt \subseteq {"load"}

\* C28: a Loader requests its own termination only after the init, when
\* initOptions is given, and then the loading of bundlesToLoad have finished,
\* in that order and exactly once for a run; progress is emitted only while
\* bundlesToLoad is loading.
C28_LoaderOrder ==
  [][ /\ \A i \in 1..Len(loader'.flows) : FlowInOrder(loader'.options, loader'.flows[i])
      /\ (\E k \in 1..Len(emitted') : emitted'[k] = Progressed) =>
           \E i \in 1..Len(loader.flows) :
              /\ loader.flows[i].at = "load" /\ loader'.flows[i].at = "load"
              /\ ~ loader.flows[i].loadDone
              /\ loader.options.bundlesToLoad # "undefined" ]_vars

\* a Loader with initOptions and bundlesToLoad has initialised, emitted
\* progress while loading, finished loading and requested its termination
C28_Witness ==
  /\ lastOp.name = "loadDone"
  /\ loader.options.initOptions
  /\ loader.options.bundlesToLoad # "undefined"
  /\ loader.chipState = "inactive"
  /\ \E i \in 1..Len(loader.flows) :
        /\ loader.flows[i].at = "done"
        /\ loader.flows[i].initDone /\ loader.flows[i].loadDone
        /\ loader.flows[i].progressAt = {"load"}
        /\ loader.flows[i].requests = 1

\* the step changed the content position
PositionChanged == content'.x # content.x \/ content'.y # content.y

\* the step emitted a moved notification
MovedEmitted == \E k \in 1..Len(emitted') : emitted'[k].name = "moved"

\* C29: scrollTo is the sole writer of the content position: refresh,
\* pointer-down, pointer-up/cancel/up-outside, ignored moves and terminate
\* leave the content position unchanged, and every step of a drag,
\* scrollbar-drag or wheel handler that changes the content position emits a
\* moved notification in that step.
C29_ScrollToSoleWriter ==
  [][ /\ lastOp'.name \in {"refresh", "scrollbarDown", "dragDown", "onUp",
                           "terminate"} => ~ PositionChanged
      /\ lastOp'.name = "onMove" /\ lastOp'.reason \in {"idle", "error"} =>
           ~ PositionChanged
      /\ PositionChanged /\ lastOp'.name \in {"onMove", "wheel"} => MovedEmitted
      /\ PositionChanged /\ status = "active" =>
           /\ lastOp'.name \in {"scrollTo", "scrollBy", "onMove", "wheel"}
           /\ MovedEmitted ]_vars

\* a step of a scrollbar drag has moved the content and emitted moved
C29_Witness ==
  /\ lastOp.name = "onMove"
  /\ lastOp.reason = "scrollbar"
  /\ emitted = <<Moved("user")>>
  /\ content.x = Num(-1)
  /\ pointerDown # <<>>
  /\ pointerDown[1].type = "scrollbar"

\* C30: a notification is emitted after the state it announces is in place:
\* at the emit of moved the content position is the clamped new position and
\* the scrollbar geometry is the one recomputed from it; at the emit of
\* refreshed the scrollbar geometry is the recomputed one.
C30_EmittedAfterState ==
  [][ /\ MovedEmitted =>
           /\ observed' = <<Seen(Point(content'.x, content'.y), scrollbar')>>
           /\ scrollbar' = _updateScrollbars(options, size, content'.x, scrollbar)
           /\ lastOp'.name = "scrollTo" =>
                Point(content'.x, content'.y) =
                  clampedPosition(options, size, lastOp'.arg)
      /\ (\E k \in 1..Len(emitted') : emitted'[k] = Refreshed) =>
           /\ observed' = <<Seen(Point(content'.x, content'.y), scrollbar')>>
           /\ scrollbar' = _updateScrollbars(options, size, content'.x, scrollbar) ]_vars

\* refresh() has run after the content grew and the position was scrolled:
\* the listener of refreshed reads a handle that differs from the one before
C30_Witness ==
  /\ lastOp.name = "refresh"
  /\ emitted = <<Refreshed>>
  /\ observed = <<Seen(Point(content.x, content.y), scrollbar)>>
  /\ content.x = Num(-1)
  /\ size.w = MaxContentW
  /\ scrollbar.ratio = Div(Num(options.boxWidth), Num(MaxContentW))

\* scrollTo has moved the content and the listener of moved reads the new
\* position and the handle recomputed from it
C30_WitnessMoved ==
  /\ lastOp.name = "scrollTo"
  /\ emitted = <<Moved("user")>>
  /\ content.x = Num(-1)
  /\ observed = <<Seen(Point(content.x, content.y), scrollbar)>>
  /\ scrollbar.handleX = Mul(Num(1), scrollbar.ratio)

\* C31: right after every activation, also one that follows a termination
\* made in the middle of a gesture, no gesture is recorded, the content
\* position is 0 on both axes with interactive children, the scrollbar
\* geometry is computed, and the activation has emitted exactly one refreshed
\* notification and no moved notification.
C31_StateAfterActivation ==
  [][ lastOp'.name = "activate" =>
        /\ status' = "active"
        /\ pointerDown' = <<>>
        /\ content'.x = Zero /\ content'.y = Zero
        /\ content'.interactiveChildren
        /\ scrollbar' = _updateScrollbars(options', size', content'.x, scrollbar)
        /\ scrollbar'.ratio = Div(Num(options.boxWidth), Num(size.w))
        /\ scrollbar'.handleX = Mul(Zero, scrollbar'.ratio)
        /\ emitted' = <<Refreshed>> ]_vars

\* a scrollbox whose content overflows the box has been activated
C31_Witness ==
  /\ lastOp.name = "activate"
  /\ status = "active"
  /\ size.w = MaxContentW
  /\ pointerDown = <<>>
  /\ content.x = Zero
  /\ scrollbar.handleWidth = Div(Num(options.boxWidth * options.boxWidth),
                                 Num(MaxContentW))
  /\ emitted = <<Refreshed>>

\* C32: the children of the content are made non-interactive only by a drag
\* move that exceeds dragThreshold: a pointer-down on the content does not
\* make them non-interactive, and in every idle state they are interactive.
C32_InertOnlyByDragMove ==
  [][ /\ (content.interactiveChildren /\ ~ content'.interactiveChildren) =>
           /\ lastOp'.name = "onMove"
           /\ lastOp'.reason = "drag"
           /\ MovedEmitted
      /\ pointerDown' = <<>> => content'.interactiveChildren ]_vars

\* C37: in every state reached through the pointer handlers the gesture
\* record is null or has the tag scrollbar or drag and a last point, and the
\* move/up dispatcher never raises "no such type".
C37_GestureTagged ==
  /\ pointerDown # <<>> =>
       /\ pointerDown[1].type \in {"scrollbar", "drag"}
       /\ DOMAIN pointerDown[1].last = {"x", "y"}
       /\ pointerDown[1].last \in {containerToLocal(g) : g \in GlobalPoints}
                                \cup {scrollbarAnchorToLocal(options, g) : g \in GlobalPoints}
  /\ outcome.raised # "no such type"
  /\ lastOp.name \in {"onMove", "onUp"} => lastOp.reason # "error"

\* a move was dispatched to the drag handler of a recorded drag gesture
C37_Witness ==
  /\ lastOp.name = "onMove"
  /\ lastOp.reason = "drag"
  /\ pointerDown # <<>>
  /\ pointerDown[1].type = "drag"
  /\ outcome.raised = "none"

\* C38: scrollTo(position) does not modify the point of the caller: after the
\* call it still holds the requested coordinates, and only the content
\* position holds the clamped ones.
C38_ArgumentUntouched ==
  [][ lastOp'.name = "scrollTo" =>
        /\ lastOp'.position = lastOp'.arg
        /\ Point(content'.x, content'.y) =
             clampedPosition(options, size, lastOp'.arg) ]_vars

\* the sprite of the chip is playing
SpritePlaying(c) == c.animatedSprite # <<>> /\ c.animatedSprite[1].playing

\* C33: between a pause and the matching resume the sprite of an
\* AnimatedSpriteChip is not playing, and after the resume it is playing
\* exactly if it was playing right before the pause.
C33_PausedSpriteStops ==
  [][ /\ animatedSpriteChip'.chipState = "paused" => ~ SpritePlaying(animatedSpriteChip')
      /\ (lastOp'.name = "spritePause" /\ animatedSpriteChip.animatedSprite # <<>>) =>
           animatedSpriteChip'.wasPlaying = SpritePlaying(animatedSpriteChip)
      /\ (animatedSpriteChip.chipState = "paused"
            /\ animatedSpriteChip'.chipState = "paused") =>
           animatedSpriteChip'.wasPlaying = animatedSpriteChip.wasPlaying
      /\ (lastOp'.name = "spriteResume" /\ animatedSpriteChip.animatedSprite # <<>>) =>
           /\ animatedSpriteChip'.chipState = "active"
           /\ SpritePlaying(animatedSpriteChip') = animatedSpriteChip.wasPlaying
           /\ animatedSpriteChip'.animatedSprite[1].currentFrame =
                animatedSpriteChip.animatedSprite[1].currentFrame ]_vars

\* a chip whose animation had completed on its last frame was paused and
\* resumed, and the sprite is still stopped
C33_Witness ==
  /\ lastOp.name = "spriteResume"
  /\ lastOp.reason = "stopped"
  /\ animatedSpriteChip.options.behaviorOnComplete = "keepLastFrame"
  /\ animatedSpriteChip.options.behaviorOnStart = "play"
  /\ animatedSpriteChip.animatedSprite # <<>>
  /\ animatedSpriteChip.animatedSprite[1].currentFrame = NumFrames - 1
  /\ ~ animatedSpriteChip.animatedSprite[1].playing

\* a chip that was playing was paused and resumed, and the sprite plays again
C33_WitnessPlaying ==
  /\ lastOp.name = "spriteResume"
  /\ lastOp.reason = "playing"
  /\ SpritePlaying(animatedSpriteChip)

\* C34: with prepare set the sprite is not a child of the container before
\* the upload callback has run, it is added when the callback runs while the
\* chip is active, and it is never added when the chip has become inactive
\* before the callback runs.
C34_PrepareDefersAdd ==
  [][ /\ (lastOp'.name = "spriteActivate" /\ lastOp'.reason = "activated"
            /\ animatedSpriteChip.options.prepare) =>
           SpriteChild(animatedSpriteChip'.animatedSprite[1]) \notin container'
      /\ (lastOp'.name = "prepareUploaded" /\ lastOp'.reason = "added") =>
           SpriteChild(animatedSpriteChip'.animatedSprite[1]) \in container'
      /\ (lastOp'.name = "prepareUploaded" /\ lastOp'.reason = "inactive") =>
           container' = container ]_vars

\* C35: after an AnimatedSpriteChip has terminated its sprite is not a child
\* of the container, with prepare set or not and however the upload callback
\* interleaves with activation and termination; _wasAdded is true exactly
\* when the sprite is a child of the container.
C35_SpriteRemoved ==
  /\ animatedSpriteChip.chipState = "inactive" =>
       \A id \in 1..animatedSpriteChip.created :
          Child("animatedSprite", id) \notin container
  /\ animatedSpriteChip.animatedSprite # <<>> =>
       (animatedSpriteChip.wasAdded = "true" <=>
          SpriteChild(animatedSpriteChip.animatedSprite[1]) \in container)

\* C36: when bundlesToBackgroundLoad is given the Loader starts loading
\* exactly the bundles of bundlesToBackgroundLoad, after bundlesToLoad has
\* finished and without waiting for them before it requests its termination.
C36_BackgroundBundles ==
  /\ loader.backgroundLoads \subseteq {loader.options.bundlesToBackgroundLoad} \ {"undefined"}
  /\ (loader.options.bundlesToBackgroundLoad # "undefined"
        /\ \E i \in 1..Len(loader.flows) : loader.flows[i].at = "done") =>
       loader.backgroundLoads = {loader.options.bundlesToBackgroundLoad}

====
